---- MODULE Spec2Model ----
(***************************************************************************)
(* Model of the tentative-prolongator builder of SAAMGE (ContribTent,      *)
(* src/amg/src/contrib.cpp): the exchange of MIS-restricted eigenvectors,  *)
(* the boundary filter, the polynomial / rigid-body extensions, the        *)
(* per-MIS SVD and insertion loop, the prefix sum of the coarse-dof counts *)
(* and the finalization of the sparse matrix.                              *)
(*                                                                         *)
(* Doubles are modelled by integers (all the values that occur are small   *)
(* integers, so == 0.0 and the copies are exact).  A DenseMatrix is the    *)
(* record [h |-> height, cols |-> sequence of columns], column-major like  *)
(* mfem's Data().  A local basis produced by the SVD carries, per column,  *)
(* the square n2 of its normaliser: entry (i,j) stands for                 *)
(* cols[j][i] / sqrt(n2[j]).                                               *)
(***************************************************************************)
EXTENDS Integers, Sequences, FiniteSets, TLC

\* ---------------------------------------------------------------- bounds
NumRanks == 2
NumMis == 2
MaxMisSize == 2
MaxH == 3
MaxW == 2
MaxNodes == 2
MaxFilled == 3
NumAEs == 2

Ranks == 0 .. NumRanks - 1
Mises == 0 .. NumMis - 1
\* Sentinels for "not set yet": a null slot holds no matrix, an unset integer
\* is negative, an unset matrix has a negative height.
NULL == <<>>
Unset == 0 - 1
NoBasis == [h |-> Unset, cols |-> <<>>, n2 |-> <<>>]
NoMatrix == [rows |-> Unset, width |-> Unset, entries |-> <<>>]
NoProvider == [stage |-> "none"]

VARIABLES
    \* agg_partitioning_relations_t and the builder's options (fixed by Init)
    sharers,              \* mis_truemis: the ranks sharing each MIS
    mis_master,           \* owner rank of each MIS
    mises_size,           \* number of dofs of each MIS
    ess_bdr,              \* the dofs flagged essential-boundary
    avoid_ess_bdr_dofs,   \* ContribTent::avoid_ess_bdr_dofs
    cfg,                  \* the entry point called on every rank, its arguments
    cut_evects_arr,       \* per rank, the eigenvectors of its aggregate
    coords,               \* nodal coordinates, coords(num_nodes*d + node)
    omitted,              \* the MISes missing from their owner's relations
    scaling_P,            \* the scaling_P argument handed to SVDInsert
    \* per rank
    pc,                   \* position of the rank in the entry point
    mis,                  \* loop index of the running per-MIS loop
    received_mats,        \* per MIS: NULL or the array of contributions
    row_sizes,            \* per MIS: the row size SVDInsert iterates over
    filled_cols,          \* ContribTent::filled_cols
    tent_interp_,         \* entries Set() so far: <<row, col>> -> value
    mis_tent_interps,     \* per MIS: NoBasis or the local basis
    mis_numcoarsedof,     \* per MIS: Unset or the coarse-dof count
    num_coarse_dofs,      \* SVDInsert's local accumulator
    coarse_truedof_offset,
    finalized,            \* NoMatrix or what contrib_tent_finalize returned
    local_coarse_one_representation,  \* the array the scaling mode appends to
    \* SharedEntityCommunication and MPI
    msgs,                 \* messages sent and not yet received
    sec_recv,             \* per rank, per MIS: contributions in arrival order
    scan_in,              \* per rank: Unset or the value given to MPI_Scan
    scan_calls,           \* per rank: number of MPI_Scan calls made
    \* history
    mats_in,              \* per rank: received_mats as the extension found it
    pass_start,           \* per rank: filled_cols when SVDInsert was entered
    \* nonconforming interior-penalty module
    schur,                \* the system SchurSolver works on and its result
    provider              \* ElementIPMatrix: its data and the last query

vars == <<sharers, mis_master, mises_size, ess_bdr, avoid_ess_bdr_dofs, cfg,
          cut_evects_arr, coords, pc, mis, received_mats, row_sizes,
          filled_cols, tent_interp_, mis_tent_interps, mis_numcoarsedof,
          num_coarse_dofs, coarse_truedof_offset, finalized, msgs, sec_recv,
          scan_in, scan_calls, mats_in, omitted, schur, scaling_P,
          local_coarse_one_representation, provider, pass_start>>

topo == <<sharers, mis_master, mises_size, ess_bdr, avoid_ess_bdr_dofs, cfg,
          cut_evects_arr, coords, omitted, scaling_P>>

\* ------------------------------------------------------------ arithmetic
Abs(x) == IF x < 0 THEN -x ELSE x

RECURSIVE SumTo(_, _)
SumTo(f, n) == IF n = 0 THEN 0 ELSE f[n] + SumTo(f, n - 1)

RECURSIVE SumOver(_, _)
SumOver(f, S) ==
    IF S = {} THEN 0
    ELSE LET x == CHOOSE y \in S : TRUE IN f[x] + SumOver(f, S \ {x})

RECURSIVE Gcd(_, _)
Gcd(a, b) == IF b = 0 THEN a ELSE Gcd(b, a % b)

Dot(u, v) == SumTo([i \in 1 .. Len(u) |-> u[i] * v[i]], Len(u))

\* ----------------------------------------------------------- DenseMatrix
Mat(h, cols) == [h |-> h, cols |-> cols]
Height(m) == m.h
Width(m) == Len(m.cols)
Elem(m, i, j) == m.cols[j][i]
ZeroCol(h) == [i \in 1 .. h |-> 0]
IsZeroCol(c) == \A i \in 1 .. Len(c) : c[i] = 0

\* ------------------------------------------------- partition relations
\* Dofs are numbered 0 .. ND-1, MIS by MIS.
MisBase(g) == SumOver(mises_size, {q \in Mises : q < g})
ND == SumOver(mises_size, Mises)
mis_to_dof(g) == [k \in 1 .. mises_size[g] |-> MisBase(g) + k - 1]
agg_is_dof_on_essential_border(row) == row \in ess_bdr

\* The MISes a rank knows, in its local numbering (increasing id).  A MIS in
\* `omitted` is missing from the relations of its owner.
LocalMises(r) == {g \in Mises : r \in sharers[g] /\ ~(g \in omitted /\ mis_master[g] = r)}
num_mises(r) == Cardinality(LocalMises(r))
LocalMis(r, i) ==
    CHOOSE g \in LocalMises(r) :
        Cardinality({q \in LocalMises(r) : q < g}) = i
OwnedMises(r) == {g \in LocalMises(r) : mis_master[g] = r}


\* ------------------------------------------------ contrib_filter_boundary
\* The test of contrib.cpp:129-131: the entry is dropped (set to 0).
FilterDrops(a, row) ==
    a = 0 \/ (avoid_ess_bdr_dofs /\ agg_is_dof_on_essential_border(row))

newcolumn(col, restriction) ==
    [j \in 1 .. Len(col) |->
        IF FilterDrops(col[j], restriction[j]) THEN 0 ELSE col[j]]

atleastone(col, restriction) ==
    \E j \in 1 .. Len(col) : ~FilterDrops(col[j], restriction[j])

RECURSIVE FilterCols(_, _, _)
FilterCols(cols, restriction, i) ==
    IF i > Len(cols) THEN <<>>
    ELSE (IF atleastone(cols[i], restriction)
          THEN <<newcolumn(cols[i], restriction)>>
          ELSE <<>>) \o FilterCols(cols, restriction, i + 1)

FilterNeverAbortsMutant(local) == FALSE

\* SA_ASSERT(vects > 0) of contrib.cpp:114.
FilterAborts(local) == ~(Width(local) > 0)

FilterReordersMutant(local, restriction) ==
    LET out == FilterCols(local.cols, restriction, 1)
    IN Mat(Height(local), [i \in 1 .. Len(out) |-> out[Len(out) + 1 - i]])

FilterKeepsZeroColumnsMutant(local, restriction) ==
    Mat(Height(local),
        [i \in 1 .. Width(local) |-> newcolumn(local.cols[i], restriction)])

FilterIgnoresBoundaryMutant(local, restriction) ==
    Mat(Height(local), SelectSeq(local.cols, LAMBDA c : ~IsZeroCol(c)))

\* The matrix `local` holds when contrib_filter_boundary returns.
contrib_filter_boundary(local, restriction) ==
    Mat(Height(local), FilterCols(local.cols, restriction, 1))

\* -------------------------------------------------- ExtendWithPolynomials
\* The slot after the "real hack" of contrib.cpp:316-320.
SlotOrEmpty(slot, g) ==
    IF slot = NULL THEN <<Mat(mises_size[g], <<>>)>> ELSE slot

\* throw 1 (contrib.cpp:330) or SA_ASSERT (contrib.cpp:322) for one MIS.
PolyMisAborts(slot, g, order) ==
    \/ Height(SlotOrEmpty(slot, g)[1]) # mises_size[g]
    \/ order \notin {0, 1}

PolyNoConstantColumnMutant(local_spectral, g, order, spatial_dimension, num_nodes, crd) ==
    Mat(Height(local_spectral), local_spectral.cols \o <<[k \in 1 .. Height(local_spectral) |-> IF k = 1 THEN 1 ELSE 0]>>)

PolyInterleavedCoordsMutant(local_spectral, g, order, spatial_dimension, num_nodes, crd) ==
    LET swidth == Width(local_spectral)
        newwidth == IF order = 0 THEN swidth + 1
                    ELSE swidth + spatial_dimension + 1
        row == mis_to_dof(g)
    IN Mat(Height(local_spectral),
           [j \in 1 .. newwidth |->
              [k \in 1 .. Height(local_spectral) |->
                 IF j <= swidth THEN Elem(local_spectral, k, j)
                 ELSE IF j = swidth + 1 THEN 1
                 ELSE IF order = 1
                      THEN crd[spatial_dimension * row[k] + (j - swidth - 2)]
                      ELSE 0]])

\* The matrix `extended` of contrib.cpp:331-347 (zero-initialised by mfem).
PolyExtended(local_spectral, g, order, spatial_dimension, num_nodes, crd) ==
    LET swidth == Width(local_spectral)
        newwidth == IF order = 0 THEN swidth + 1
                    ELSE swidth + spatial_dimension + 1
        row == mis_to_dof(g)
    IN Mat(Height(local_spectral),
           [j \in 1 .. newwidth |->
              [k \in 1 .. Height(local_spectral) |->
                 IF j <= swidth THEN Elem(local_spectral, k, j)
                 ELSE IF j = swidth + 1 THEN 1
                 ELSE IF order = 1
                      THEN crd[num_nodes * (j - swidth - 2) + row[k]]
                      ELSE 0]])

\* One iteration of the loop of contrib.cpp:309-350 for an owned MIS.
PolyMis(slot, g, order, spatial_dimension, num_nodes, crd) ==
    LET s == SlotOrEmpty(slot, g)
    IN [s EXCEPT ![1] = PolyExtended(s[1], g, order, spatial_dimension,
                                     num_nodes, crd)]

ExtendWithPolynomialsAborts(recv, r, order) ==
    \E g \in OwnedMises(r) : PolyMisAborts(recv[g], g, order)

PolynomialsExtendEveryMisMutant(recv, r, order, spatial_dimension, num_nodes, crd) ==
    [g \in DOMAIN recv |-> PolyMis(recv[g], g, order, spatial_dimension, num_nodes, crd)]

ExtendWithPolynomials(recv, r, order, spatial_dimension, num_nodes, crd) ==
    [g \in DOMAIN recv |->
        IF mis_master[g] = r
        THEN PolyMis(recv[g], g, order, spatial_dimension, num_nodes, crd)
        ELSE recv[g]]

\* --------------------------------------------------------- ExtendWithRBMs
\* throw 1 (contrib.cpp:389) and the SA_ASSERTs of contrib.cpp:379,397,402.
RBMMisAborts(slot, g, spatial_dimension, num_nodes) ==
    \/ Height(SlotOrEmpty(slot, g)[1]) # mises_size[g]
    \/ spatial_dimension \notin {1, 2, 3}
    \/ mises_size[g] % spatial_dimension # 0
    \/ \E node \in 0 .. (mises_size[g] \div spatial_dimension) - 1 :
          ~(mis_to_dof(g)[node * spatial_dimension + 1] \div spatial_dimension
              < num_nodes)

RBMRotationSignMutant(local_spectral, g, spatial_dimension, num_nodes, crd) ==
    LET sd == spatial_dimension
        appended == IF sd = 1 THEN 1 ELSE IF sd = 2 THEN 3 ELSE 6
        x(k) == crd[mis_to_dof(g)[((k - 1) \div sd) * sd + 1] \div sd]
        y(k) == crd[num_nodes + mis_to_dof(g)[((k - 1) \div sd) * sd + 1] \div sd]
    IN Mat(Height(local_spectral),
           local_spectral.cols \o
             [c \in 1 .. appended |->
                [k \in 1 .. Height(local_spectral) |->
                   IF c <= sd THEN (IF c - 1 = (k - 1) % sd THEN 1 ELSE 0)
                   ELSE IF (k - 1) % sd = 0 THEN -y(k)
                   ELSE IF (k - 1) % sd = 1 THEN x(k) ELSE 0]])

RBM3DSecondAxisSignMutant(local_spectral, g, spatial_dimension, num_nodes, crd) ==
    LET swidth == Width(local_spectral)
        sd == spatial_dimension
        newwidth == IF sd = 1 THEN swidth + 1
                    ELSE IF sd = 2 THEN swidth + 3 ELSE swidth + 6
        row == mis_to_dof(g)
        node_num(node) == row[node * sd + 1] \div sd
        xcoord(node) == crd[num_nodes * 0 + node_num(node)]
        ycoord(node) == crd[num_nodes * 1 + node_num(node)]
        zcoord(node) == crd[num_nodes * 2 + node_num(node)]
        entry(k, c) ==
            LET node == (k - 1) \div sd
                d == (k - 1) % sd
            IN IF c < sd THEN (IF c = d THEN 1 ELSE 0)
               ELSE IF c = sd + 0 /\ sd > 1
                    THEN (IF d = 0 THEN ycoord(node)
                          ELSE IF d = 1 THEN -xcoord(node) ELSE 0)
               ELSE IF c = sd + 1 /\ sd > 2
                    THEN (IF d = 0 THEN 0
                          ELSE IF d = 1 THEN zcoord(node)
                          ELSE -ycoord(node))
               ELSE IF c = sd + 2 /\ sd > 2
                    THEN (IF d = 0 THEN zcoord(node)
                          ELSE IF d = 1 THEN 0 ELSE xcoord(node))
               ELSE 0
    IN Mat(Height(local_spectral),
           [j \in 1 .. newwidth |->
              [k \in 1 .. Height(local_spectral) |->
                 IF j <= swidth THEN Elem(local_spectral, k, j)
                 ELSE entry(k, j - swidth - 1)]])

\* The matrix `extended` of contrib.cpp:390-432; c is the 0-based number of
\* the appended column, d the coordinate component of row k.
RBMExtended(local_spectral, g, spatial_dimension, num_nodes, crd) ==
    LET swidth == Width(local_spectral)
        sd == spatial_dimension
        newwidth == IF sd = 1 THEN swidth + 1
                    ELSE IF sd = 2 THEN swidth + 3 ELSE swidth + 6
        row == mis_to_dof(g)
        node_num(node) == row[node * sd + 1] \div sd
        xcoord(node) == crd[num_nodes * 0 + node_num(node)]
        ycoord(node) == crd[num_nodes * 1 + node_num(node)]
        zcoord(node) == crd[num_nodes * 2 + node_num(node)]
        entry(k, c) ==
            LET node == (k - 1) \div sd
                d == (k - 1) % sd
            IN IF c < sd THEN (IF c = d THEN 1 ELSE 0)
               ELSE IF c = sd + 0 /\ sd > 1
                    THEN (IF d = 0 THEN ycoord(node)
                          ELSE IF d = 1 THEN -xcoord(node) ELSE 0)
               ELSE IF c = sd + 1 /\ sd > 2
                    THEN (IF d = 0 THEN 0
                          ELSE IF d = 1 THEN zcoord(node)
                          ELSE -ycoord(node))
               ELSE IF c = sd + 2 /\ sd > 2
                    THEN (IF d = 0 THEN -zcoord(node)
                          ELSE IF d = 1 THEN 0 ELSE xcoord(node))
               ELSE 0
    IN Mat(Height(local_spectral),
           [j \in 1 .. newwidth |->
              [k \in 1 .. Height(local_spectral) |->
                 IF j <= swidth THEN Elem(local_spectral, k, j)
                 ELSE entry(k, j - swidth - 1)]])

RBMMis(slot, g, spatial_dimension, num_nodes, crd) ==
    LET s == SlotOrEmpty(slot, g)
    IN [s EXCEPT ![1] = RBMExtended(s[1], g, spatial_dimension, num_nodes,
                                    crd)]

ExtendWithRBMsAborts(recv, r, spatial_dimension, num_nodes) ==
    \E g \in OwnedMises(r) :
        RBMMisAborts(recv[g], g, spatial_dimension, num_nodes)

ExtendWithRBMs(recv, r, spatial_dimension, num_nodes, crd) ==
    [g \in DOMAIN recv |->
        IF mis_master[g] = r
        THEN RBMMis(recv[g], g, spatial_dimension, num_nodes, crd)
        ELSE recv[g]]


\* ---------------------------------------- xpack_svd_dense_arr, orth_set
\* All the columns of the first row_size matrices of arr, in array order.
RECURSIVE ConcatCols(_, _)
ConcatCols(arr, row_size) ==
    IF row_size = 0 THEN <<>>
    ELSE ConcatCols(arr, row_size - 1) \o arr[row_size].cols

ReduceVec(v) ==
    LET RECURSIVE G(_)
        G(i) == IF i = 0 THEN 0 ELSE Gcd(Abs(v[i]), G(i - 1))
        d == G(Len(v))
    IN IF d = 0 THEN v ELSE [i \in 1 .. Len(v) |-> v[i] \div d]

\* v minus its components along the (pairwise orthogonal) vectors of B,
\* scaled to stay integral.  Intermediate vectors are bound through
\* singleton sets, which fixes each value before the next step uses it.
RECURSIVE ProjectOut(_, _, _)
ProjectOut(v, B, i) ==
    IF i > Len(B) THEN v
    ELSE CHOOSE p \in {ProjectOut(w, B, i + 1) : w \in {ReduceVec([j \in 1 .. Len(v) |-> Dot(B[i], B[i]) * v[j] - Dot(v, B[i]) * B[i][j]])}} : TRUE

RECURSIVE Orthogonalize(_, _, _)
Orthogonalize(cols, i, B) ==
    IF i > Len(cols) THEN B
    ELSE CHOOSE o \in {Orthogonalize(cols, i + 1, IF IsZeroCol(v) THEN B ELSE Append(B, v)) : v \in {ProjectOut(cols[i], B, 1)}} : TRUE

\* The left singular vectors that belong to nonzero singular values: an
\* orthogonal basis of the column space of the combined contribution.
xpack_svd_dense_arr(arr, row_size) ==
    CHOOSE o \in {Orthogonalize(c, 1, <<>>) : c \in {ConcatCols(arr, row_size)}} : TRUE

\* The orthonormal matrix xpack_orth_set leaves in mis_tent_interps[mis].
xpack_orth_set(lsvects, dim) ==
    [h |-> dim, cols |-> lsvects,
     n2 |-> [j \in 1 .. Len(lsvects) |-> Dot(lsvects[j], lsvects[j])]]

\* ------------------------------------------ contrib_tent_insert_simple
threshold_ == 0

\* Square of the normaliser of column j (1 for a plain DenseMatrix).
N2(m, j) == IF "n2" \in DOMAIN m THEN m.n2[j] ELSE 1

AtOrAboveThresholdMutant(m, i, j) ==
    Elem(m, i, j) * Elem(m, i, j) >= threshold_ * threshold_ * N2(m, j)

\* fabs(data[j]) > threshold_ of contrib.cpp:188.
AboveThreshold(m, i, j) ==
    Elem(m, i, j) * Elem(m, i, j) > threshold_ * threshold_ * N2(m, j)

\* The SA_ASSERTs of contrib.cpp:179-180.
InsertSimpleAborts(local) ==
    ~(Width(local) > 0) \/ ~(Height(local) >= Width(local))

InsertIgnoresRestrictionMutant(tent, filled, local, restriction) ==
    LET new == {<<e[1] - 1, filled + e[2] - 1>> : e \in {e \in (1 .. Height(local)) \X (1 .. Width(local)) : AboveThreshold(local, e[1], e[2])}}
    IN [p \in DOMAIN tent \cup new |-> IF p \in new THEN [num |-> Elem(local, p[1] + 1, p[2] - filled + 1), n2 |-> N2(local, p[2] - filled + 1)] ELSE tent[p]]

\* tent_interp_->Set(row, col, data[j]) for every entry above the threshold.
InsertedEntries(tent, filled, local, restriction) ==
    LET new == {<<restriction[i], filled + j - 1>> : <<i, j>> \in {e \in (1 .. Height(local)) \X (1 .. Width(local)) : AboveThreshold(local, e[1], e[2])}}
        val(p) == LET i == CHOOSE i \in 1 .. Height(local) : restriction[i] = p[1]
                      j == p[2] - filled + 1
                  IN [num |-> Elem(local, i, j), n2 |-> N2(local, j)]
    IN [p \in DOMAIN tent \cup new |-> IF p \in new THEN val(p) ELSE tent[p]]

InsertSkipsColumnMutant(tent, filled, local, restriction) ==
    [tent |-> InsertedEntries(tent, filled, local, restriction), filled_cols |-> filled + Width(local) + 1]

\* tent_interp_ and filled_cols when contrib_tent_insert_simple returns.
contrib_tent_insert_simple(tent, filled, local, restriction) ==
    [tent |-> InsertedEntries(tent, filled, local, restriction), filled_cols |-> filled + Width(local)]

\* ------------------------------------------ contrib_tent_insert_from_local
\* newcolumn of contrib.cpp:228-252 for column i: the entries that are zero
\* or sit on an essential-boundary dof are zeroed.
NewColumn(local, restriction, i) ==
    [j \in 1 .. Height(local) |->
        IF Elem(local, j, i) = 0 \/ (avoid_ess_bdr_dofs /\ agg_is_dof_on_essential_border(restriction[j]))
        THEN 0 ELSE Elem(local, j, i)]

nonzerodofs(c) == Cardinality({j \in 1 .. Len(c) : c[j] # 0})

\* adhoc_column_norm < 1.e-3 (contrib.cpp:257): the l1 norm of a column of
\* integers is below the tolerance exactly when the column is zero.
ColumnIgnored(c) == SumTo([j \in 1 .. Len(c) |-> Abs(c[j])], Len(c)) = 0

\* The columns the loop of contrib.cpp:227-275 keeps, in order.
RECURSIVE KeptColumns(_, _, _)
KeptColumns(local, restriction, i) ==
    IF i = 0 THEN <<>>
    ELSE LET c == NewColumn(local, restriction, i)
         IN IF ColumnIgnored(c) THEN KeptColumns(local, restriction, i - 1)
            ELSE Append(KeptColumns(local, restriction, i - 1), c)

bestcase_nonzerodofs(local, restriction) ==
    LET n == [i \in 1 .. Width(local) |-> nonzerodofs(NewColumn(local, restriction, i))]
    IN IF Width(local) = 0 THEN 0
       ELSE CHOOSE m \in {n[i] : i \in 1 .. Width(local)} : \A i \in 1 .. Width(local) : n[i] <= m

\* The SA_ASSERTs of contrib.cpp:219-220 and 276.
InsertFromLocalAborts(local, restriction) ==
    \/ ~(Width(local) > 0)
    \/ ~(Height(local) >= Width(local))
    \/ ~(bestcase_nonzerodofs(local, restriction) >= Len(KeptColumns(local, restriction, Width(local))))

FromLocalCountsIgnoredMutant(tent, filled, local, restriction) ==
    LET kept == KeptColumns(local, restriction, Width(local))
        new == {<<restriction[j], filled + i - 1>> : <<j, i>> \in (1 .. Height(local)) \X (1 .. Len(kept))}
    IN [tent |-> [p \in DOMAIN tent \cup new |->
                    IF p \in new
                    THEN [num |-> kept[p[2] - filled + 1][CHOOSE j \in 1 .. Height(local) : restriction[j] = p[1]], n2 |-> 1]
                    ELSE tent[p]],
        filled_cols |-> filled + Width(local),
        local |-> Mat(Height(local), kept)]

\* tent_interp_, filled_cols and local when contrib_tent_insert_from_local
\* returns: every entry of a kept column is Set, zeros included, and local
\* is left holding the kept columns (contrib.cpp:263-286).
contrib_tent_insert_from_local(tent, filled, local, restriction) ==
    LET kept == KeptColumns(local, restriction, Width(local))
        new == {<<restriction[j], filled + i - 1>> : <<j, i>> \in (1 .. Height(local)) \X (1 .. Len(kept))}
    IN [tent |-> [p \in DOMAIN tent \cup new |->
                    IF p \in new
                    THEN [num |-> kept[p[2] - filled + 1][CHOOSE j \in 1 .. Height(local) : restriction[j] = p[1]], n2 |-> 1]
                    ELSE tent[p]],
        filled_cols |-> filled + Len(kept),
        local |-> Mat(Height(local), kept)]

\* -------------------------------------------------- contrib_tent_finalize
FinalizeNeverEmptyMutant(tent, rows, filled) ==
    [rows |-> rows, width |-> IF filled = 0 THEN 1 ELSE filled, entries |-> tent]

FinalizeWidthMutant(tent, rows, filled) ==
    [rows |-> rows, width |-> filled + 1, entries |-> tent]

\* The SparseMatrix contrib_tent_finalize returns: Size() x filled_cols.
contrib_tent_finalize(tent, rows, filled) ==
    [rows |-> rows, width |-> filled, entries |-> tent]

\* ------------------------------------------------ CommunicateEigenvectors
\* agg_restrict_to_agg_enforce: the rows of the aggregate's eigenvectors
\* that belong to the dofs of MIS g.
agg_restrict_to_agg_enforce(g, evects) ==
    Mat(mises_size[g], [j \in 1 .. Width(evects) |-> [k \in 1 .. mises_size[g] |-> evects.cols[j][mis_to_dof(g)[k] + 1]]])

\* The combined matrix of contrib.cpp:524-542 (every rank holds one
\* aggregate, which contains all the MISes of the rank).
send_mat(r, g) == agg_restrict_to_agg_enforce(g, cut_evects_arr[r])

\* SharedEntityCommunication::NumNeighbors
NumNeighbors(g) == Cardinality(sharers[g])

\* The senders of the contributions held for an owned MIS, in the order of
\* the array Collect returns: the owner first, then by rank.
RECURSIVE SortedRanks(_)
SortedRanks(S) ==
    IF S = {} THEN <<>>
    ELSE LET m == CHOOSE x \in S : \A y \in S : x <= y
         IN <<m>> \o SortedRanks(S \ {m})

CollectOrder(r, g) == <<r>> \o SortedRanks(sharers[g] \ {r})

CollectIgnoresSendsMutant(r) ==
    \A g \in OwnedMises(r) : {sec_recv[r][g][i].from : i \in 1 .. Len(sec_recv[r][g])} = sharers[g]

\* Collect is a distributed phase: it returns on rank r once every
\* contribution to the MISes r owns is in and every send of r has been
\* matched by the receive of the owner.
CollectComplete(r) ==
    /\ \A g \in OwnedMises(r) : {sec_recv[r][g][i].from : i \in 1 .. Len(sec_recv[r][g])} = sharers[g]
    /\ \A m \in msgs : m.from # r

CollectArrivalOrderMutant(r) ==
    [g \in Mises |->
        IF g \in OwnedMises(r)
        THEN [q \in 1 .. Len(sec_recv[r][g]) |-> sec_recv[r][g][q].mat]
        ELSE NULL]

CollectDropsOwnMutant(r) ==
    [g \in Mises |->
        IF g \in OwnedMises(r)
        THEN [q \in 1 .. Len(sec_recv[r][g]) - 1 |-> sec_recv[r][g][q + 1].mat]
        ELSE NULL]

\* The array SharedEntityCommunication::Collect returns on rank r.
Collect(r) ==
    [g \in Mises |->
        IF g \in OwnedMises(r)
        THEN [q \in 1 .. NumNeighbors(g) |->
                LET from == CollectOrder(r, g)[q]
                    i == CHOOSE i \in 1 .. Len(sec_recv[r][g]) : sec_recv[r][g][i].from = from
                IN sec_recv[r][g][i].mat]
        ELSE NULL]


\* -------------------------------------------------------------- SVDInsert
\* !interior_dofs of contrib.cpp:580-591.
AllOnBorder(g) ==
    \A j \in 1 .. mises_size[g] : agg_is_dof_on_essential_border(mis_to_dof(g)[j])

FilterSkipsLastContributionMutant(slot, g, row_size) ==
    [q \in 1 .. Len(slot) |-> IF q < row_size THEN contrib_filter_boundary(slot[q], mis_to_dof(g)) ELSE slot[q]]

\* received_mats[mis] after the filter loop of contrib.cpp:616-622.
FilteredSlot(slot, g, row_size) ==
    [q \in 1 .. Len(slot) |-> IF q <= row_size THEN contrib_filter_boundary(slot[q], mis_to_dof(g)) ELSE slot[q]]

total_num_columns(slot, g, row_size) ==
    SumTo([q \in 1 .. row_size |-> Width(FilteredSlot(slot, g, row_size)[q])], row_size)

LsvectsKeepsEveryColumnMutant(slot, g, row_size) ==
    ConcatCols(FilteredSlot(slot, g, row_size), row_size)

\* lsvects after contrib.cpp:624-627 (empty when svals.Size() == 0).
Lsvects(slot, g, row_size) ==
    IF total_num_columns(slot, g, row_size) = 0 THEN <<>>
    ELSE xpack_svd_dense_arr(FilteredSlot(slot, g, row_size), row_size)

BranchZeroIsFatalMutant(r, g, slot, row_size) ==
    IF mis_master[g] # r THEN "notowned"
    ELSE IF Height(slot[1]) # mises_size[g] THEN "abort"
    ELSE IF avoid_ess_bdr_dofs /\ AllOnBorder(g) THEN "boundary"
    ELSE IF Height(slot[1]) = 1 THEN "single"
    ELSE IF \E q \in 1 .. row_size : FilterAborts(slot[q]) THEN "abort"
    ELSE IF Len(Lsvects(slot, g, row_size)) = 0 THEN "abort"
    ELSE "svd"

BranchNoBoundarySkipMutant(r, g, slot, row_size) ==
    IF mis_master[g] # r THEN "notowned"
    ELSE IF Height(slot[1]) # mises_size[g] THEN "abort"
    ELSE IF Height(slot[1]) = 1 THEN "single"
    ELSE IF \E q \in 1 .. row_size : FilterAborts(slot[q]) THEN "abort"
    ELSE IF Len(Lsvects(slot, g, row_size)) = 0 THEN "zero"
    ELSE "svd"

BranchSingleDofFirstMutant(r, g, slot, row_size) ==
    IF mis_master[g] # r THEN "notowned"
    ELSE IF Height(slot[1]) # mises_size[g] THEN "abort"
    ELSE IF Height(slot[1]) = 1 THEN "single"
    ELSE IF avoid_ess_bdr_dofs /\ AllOnBorder(g) THEN "boundary"
    ELSE IF \E q \in 1 .. row_size : FilterAborts(slot[q]) THEN "abort"
    ELSE IF Len(Lsvects(slot, g, row_size)) = 0 THEN "zero"
    ELSE "svd"

\* The path one iteration of the loop of contrib.cpp:564-680 takes.
MisBranch(r, g, slot, row_size) ==
    IF mis_master[g] # r THEN "notowned"
    ELSE IF Height(slot[1]) # mises_size[g] THEN "abort"
    ELSE IF avoid_ess_bdr_dofs /\ AllOnBorder(g) THEN "boundary"
    ELSE IF Height(slot[1]) = 1 THEN "single"
    ELSE IF \E q \in 1 .. row_size : FilterAborts(slot[q]) THEN "abort"
    ELSE IF Len(Lsvects(slot, g, row_size)) = 0 THEN "zero"
    ELSE "svd"

SingleDofBasisMutant(g) ==
    [h |-> 1, cols |-> <<<<2>>>>, n2 |-> <<1>>]

\* mis_tent_interps[mis] on the dim == 1 path (contrib.cpp:610-611).
SingleDofBasis(g) ==
    [h |-> 1, cols |-> <<<<1>>>>, n2 |-> <<1>>]

SkipLeavesEmptyMatrixMutant(r, g, slot, row_size) ==
    LET b == MisBranch(r, g, slot, row_size)
    IN IF b \in {"notowned", "boundary", "zero"} THEN [h |-> 0, cols |-> <<>>, n2 |-> <<>>]
       ELSE IF b = "single" THEN SingleDofBasis(g)
       ELSE CHOOSE m \in {xpack_orth_set(lsvects, mises_size[g]) : lsvects \in {Lsvects(slot, g, row_size)}} : TRUE

\* mis_tent_interps[mis] when the iteration ends.
MisBasis(r, g, slot, row_size) ==
    LET b == MisBranch(r, g, slot, row_size)
    IN IF b = "notowned" THEN [h |-> 0, cols |-> <<>>, n2 |-> <<>>]
       ELSE IF b \in {"boundary", "zero"} THEN [h |-> mises_size[g], cols |-> <<>>, n2 |-> <<>>]
       ELSE IF b = "single" THEN SingleDofBasis(g)
       ELSE CHOOSE m \in {xpack_orth_set(lsvects, mises_size[g]) : lsvects \in {Lsvects(slot, g, row_size)}} : TRUE

\* x after xpack_solve_lls(*mis_tent_interps[mis], b, x) with b = 1.0
\* (contrib.cpp:658-661): the columns of the basis are orthonormal, so
\* x(k) is the sum of column k; it is kept as <<s, n2>> for s / sqrt(n2).
xpack_solve_lls(basis) ==
    [k \in 1 .. Width(basis) |-> <<SumTo(basis.cols[k], basis.h), basis.n2[k]>>]

ScalingAppendsNothingMutant(rep, basis, g) == rep

\* local_coarse_one_representation after the scaling block of
\* contrib.cpp:656-669: one entry x(k) / norm per column of the basis; norm
\* is zero when every x(k) is.
ScalingAppend(rep, basis, g) ==
    LET x == xpack_solve_lls(basis)
    IN rep \o [k \in 1 .. Len(x) |->
                 [mis |-> g, col |-> k, x |-> x[k], zero_norm |-> \A j \in 1 .. Len(x) : x[j][1] = 0]]

\* Whether the iteration reaches contrib_tent_insert_simple.
MisInserts(b) == b \in {"single", "svd"}

\* The value MPI_Scan returns on rank r: the sum over the ranks 0 .. r.
MPI_Scan(r) == SumOver(scan_in, 0 .. r)

ScanOffByOwnMutant(r) == MPI_Scan(r)

\* coarse_truedof_offset after contrib.cpp:683-685.
ScanOffset(r) == MPI_Scan(r) - num_coarse_dofs[r]


\* ------------------------------------------------------------ SchurSolver
\* A single isolated agglomerate: NumInterior interior dofs followed by one
\* face dof, no shared faces, so that true dofs and dofs coincide.  The
\* entries are integers and the results rationals <<numerator, denominator>>.
NumInterior == 2
MaxEntry == 1
Entries == (0 - MaxEntry) .. MaxEntry
NoSchur == [stage |-> "none"]

Q(n, d) == <<n, d>>
QEq(a, b) == a[1] * b[2] = b[1] * a[2]
QSub(a, b) == Q(a[1] * b[2] - b[1] * a[2], a[2] * b[2])
QMul(a, b) == Q(a[1] * b[1], a[2] * b[2])
QDiv(a, b) == Q(a[1] * b[2], a[2] * b[1])
QInt(n) == Q(n, 1)

Det2(M) == M[1][1] * M[2][2] - M[1][2] * M[2][1]
Adj2(M) == <<<<M[2][2], 0 - M[1][2]>>, <<0 - M[2][1], M[1][1]>>>>
Det3(M) ==
    M[1][1] * (M[2][2] * M[3][3] - M[2][3] * M[3][2])
      - M[1][2] * (M[2][1] * M[3][3] - M[2][3] * M[3][1])
      + M[1][3] * (M[2][1] * M[3][2] - M[2][2] * M[3][1])

\* The unreduced operator [Aii Aif; Afi Aff] as a sequence of rows.
FullMatrix(A) ==
    <<A.ii[1] \o <<A.if[1]>>, A.ii[2] \o <<A.if[2]>>, A.fi \o <<A.ff>>>>

\* inv(Aii) applied to a vector of rationals.
InteriorSolve(A, v) ==
    [k \in 1 .. NumInterior |->
        QDiv(Q(Adj2(A.ii)[k][1] * v[1][1] * v[2][2] + Adj2(A.ii)[k][2] * v[2][1] * v[1][2], v[1][2] * v[2][2]), QInt(Det2(A.ii)))]

\* The face-only right-hand side: bf - Afi inv(Aii) bi.
nonconf_assemble_schur_rhs(A, rhs) ==
    LET w == InteriorSolve(A, <<QInt(rhs[1]), QInt(rhs[2])>>)
    IN QSub(QSub(QInt(rhs[3]), QMul(QInt(A.fi[1]), w[1])), QMul(QInt(A.fi[2]), w[2]))

\* The face-only reduced operator: Aff - Afi inv(Aii) Aif.
nonconf_assemble_schur_matrix(A) ==
    LET w == InteriorSolve(A, <<QInt(A.if[1]), QInt(A.if[2])>>)
    IN QSub(QSub(QInt(A.ff), QMul(QInt(A.fi[1]), w[1])), QMul(QInt(A.fi[2]), w[2]))

\* The exact inner solver on the reduced system.
solver(S, g) == QDiv(g, S)

UpdateInteriorFromReducedRhsMutant(A, rhs, facev) ==
    InteriorSolve(A, <<QInt(rhs[1]), QInt(rhs[2])>>) \o <<facev>>

\* The back-substitution: the interior part is inv(Aii) (bi - Aif facev)
\* with bi taken from the original right-hand side, the face part is facev.
nonconf_schur_update_interior(A, rhs, facev) ==
    InteriorSolve(A, [k \in 1 .. NumInterior |-> QSub(QInt(rhs[k]), QMul(QInt(A.if[k]), facev))]) \o <<facev>>

\* SchurSolver::Mult: reduce, solve on the faces, recover the interiors.
SchurSolverMult(A, rhs) ==
    nonconf_schur_update_interior(A, rhs, solver(nonconf_assemble_schur_matrix(A), nonconf_assemble_schur_rhs(A, rhs)))

\* ------------------------------------------------------------------ Init
NoMats == [g \in Mises |-> NULL]
NoBases == [g \in Mises |-> NoBasis]
NoCounts == [g \in Mises |-> Unset]

\* What the constructor (contrib.cpp:57-67) and the callers leave on every
\* rank before the entry point is called.
FreshRanks ==
    /\ mis = [r \in Ranks |-> 0]
    /\ received_mats = [r \in Ranks |-> NoMats]
    /\ row_sizes = [r \in Ranks |-> [g \in Mises |-> 0]]
    /\ filled_cols = [r \in Ranks |-> 0]
    /\ tent_interp_ = [r \in Ranks |-> <<>>]
    /\ mis_tent_interps = [r \in Ranks |-> NoBases]
    /\ mis_numcoarsedof = [r \in Ranks |-> NoCounts]
    /\ num_coarse_dofs = [r \in Ranks |-> 0]
    /\ coarse_truedof_offset = [r \in Ranks |-> Unset]
    /\ finalized = [r \in Ranks |-> NoMatrix]
    /\ local_coarse_one_representation = [r \in Ranks |-> <<>>]
    /\ msgs = {}
    /\ sec_recv = [r \in Ranks |-> [g \in Mises |-> <<>>]]
    /\ scan_in = [r \in Ranks |-> Unset]
    /\ scan_calls = [r \in Ranks |-> 0]
    /\ mats_in = [r \in Ranks |-> NoMats]
    /\ pass_start = [r \in Ranks |-> Unset]

\* The entry points of ContribTent and the arguments they are called with.
Configs ==
    {[entry |-> "ones", order |-> 0, sd |-> 1],
     [entry |-> "linears", order |-> 1, sd |-> 1],
     [entry |-> "mises", order |-> 0, sd |-> 1],
     [entry |-> "composite", order |-> 0, sd |-> 1],
     [entry |-> "composite", order |-> 0, sd |-> 2]}

UsesExchange == cfg.entry \in {"mises", "composite"}

\* The num_nodes the caller passes: one node per spatial_dimension dofs.
NumNodes == ND \div cfg.sd

\* The eigenvector columns an aggregate may hold, by the value on each dof.
Patterns == {"ones", "first"}
PatternCol(p, r) ==
    [i \in 1 .. ND |->
        LET d == i - 1
            g == CHOOSE q \in Mises : d \in {mis_to_dof(q)[k] : k \in 1 .. mises_size[q]}
        IN IF r \notin sharers[g] THEN 0
           ELSE IF p = "ones" THEN 1
           ELSE IF d = MisBase(g) THEN 1 ELSE 0]

EvectChoices(r) ==
    (IF cfg.entry = "mises" THEN {Mat(ND, <<>>)} ELSE {})
      \cup {Mat(ND, <<PatternCol("first", r)>>), Mat(ND, <<PatternCol("ones", r), PatternCol("first", r)>>)}

\* The flaggings of the essential boundary: no dof, the first dof of every
\* MIS, every dof.  The flags are read only when avoid_ess_bdr_dofs is set.
BdrChoices ==
    IF avoid_ess_bdr_dofs
    THEN {{}, {MisBase(g) : g \in Mises}, 0 .. ND - 1}
    ELSE {0 .. ND - 1}

\* The partition, the options, the inputs and the fresh builder.
Setup ==
    /\ sharers \in [Mises -> SUBSET Ranks \ {{}}]
    /\ mis_master = [g \in Mises |-> CHOOSE r \in sharers[g] : \A q \in sharers[g] : r <= q]
    /\ mises_size \in [Mises -> 1 .. MaxMisSize]
    /\ avoid_ess_bdr_dofs \in BOOLEAN
    /\ ess_bdr \in BdrChoices
    /\ cfg \in Configs
    /\ cut_evects_arr \in [Ranks -> UNION {EvectChoices(r) : r \in Ranks}]
    /\ \A r \in Ranks : cut_evects_arr[r] \in (IF UsesExchange THEN EvectChoices(r) ELSE {Mat(ND, <<>>)})
    /\ coords = [i \in 0 .. cfg.sd * NumNodes - 1 |-> i + 1]
    /\ pc = [r \in Ranks |-> "start"]
    /\ FreshRanks
    /\ schur = NoSchur
    /\ provider = NoProvider
    /\ scaling_P \in (IF cfg.entry = "mises" THEN BOOLEAN ELSE {FALSE})

\* Every rank holds every MIS it shares: the exchange is symmetric.
Init == Setup /\ omitted = {}

\* --------------------------------------------------------------- actions
\* SVDInsert's prologue (contrib.cpp:555-563) with the row sizes given.
EnterSVDInsert(r, sizes) ==
    /\ row_sizes' = [row_sizes EXCEPT ![r] = sizes]
    /\ mis_tent_interps' = [mis_tent_interps EXCEPT ![r] = NoBases]
    /\ mis_numcoarsedof' = [mis_numcoarsedof EXCEPT ![r] = NoCounts]
    /\ num_coarse_dofs' = [num_coarse_dofs EXCEPT ![r] = 0]
    /\ mis' = [mis EXCEPT ![r] = 0]
    /\ pass_start' = [pass_start EXCEPT ![r] = filled_cols[r]]

EntryRowSizesOneMutant(r) ==
    [g \in Mises |-> IF r \notin sharers[g] THEN 0 ELSE 1]

\* The row sizes the entry point hands to SVDInsert: 1 in contrib_ones and
\* contrib_linears (contrib.cpp:462-464, 485-487), NumNeighbors in
\* contrib_mises and contrib_composite (contrib.cpp:709-711, 741-743).
EntryRowSizes(r) ==
    [g \in Mises |->
        IF r \notin sharers[g] THEN 0
        ELSE IF UsesExchange THEN NumNeighbors(g) ELSE 1]

SendsOnlyNonemptyMutant(r) ==
    {[from |-> r, to |-> mis_master[g], mis |-> g, mat |-> send_mat(r, g)] : g \in {q \in LocalMises(r) \ OwnedMises(r) : Width(send_mat(r, q)) > 0}}

\* The messages the send loop of contrib.cpp:520-546 hands to ReduceSend for
\* the MISes other ranks own: one per local MIS, owned or not.
SentMessages(r) ==
    {[from |-> r, to |-> mis_master[g], mis |-> g, mat |-> send_mat(r, g)] : g \in LocalMises(r) \ OwnedMises(r)}

\* The first half of CommunicateEigenvectors (contrib.cpp:497-546):
\* ReducePrepare posts the receives, then one ReduceSend per local MIS in
\* increasing order; ReduceSend keeps the owner's own matrix and sends any
\* other rank's to the owner.  Nothing in it blocks.
ReduceSend(r) ==
    /\ pc[r] = "start"
    /\ UsesExchange
    /\ msgs' = msgs \cup SentMessages(r)
    /\ sec_recv' = [sec_recv EXCEPT ![r] = [g \in Mises |-> IF g \in OwnedMises(r) THEN Append(@[g], [from |-> r, mat |-> send_mat(r, g)]) ELSE @[g]]]
    /\ mis' = [mis EXCEPT ![r] = num_mises(r)]
    /\ pc' = [pc EXCEPT ![r] = "collect"]
    /\ UNCHANGED <<topo, schur, provider, pass_start, local_coarse_one_representation, received_mats, row_sizes, filled_cols, tent_interp_, mis_tent_interps, mis_numcoarsedof, num_coarse_dofs, coarse_truedof_offset, finalized, scan_in, scan_calls, mats_in>>

\* A message reaches its owner.  MPI buffers a message that arrives before
\* the owner has posted the receive in ReducePrepare, so the arrival may
\* precede the owner's own ReduceSend.  ReducePrepare posts receives for the
\* MISes the rank owns by its own relations, and for no other.
Receive(m) ==
    /\ m \in msgs
    /\ pc[m.to] \in {"start", "collect"}
    /\ m.mis \in OwnedMises(m.to)
    /\ msgs' = msgs \ {m}
    /\ sec_recv' = [sec_recv EXCEPT ![m.to][m.mis] = Append(@, [from |-> m.from, mat |-> m.mat])]
    /\ UNCHANGED <<topo, schur, provider, pass_start, local_coarse_one_representation, pc, mis, received_mats, row_sizes, filled_cols, tent_interp_, mis_tent_interps, mis_numcoarsedof, num_coarse_dofs, coarse_truedof_offset, finalized, scan_in, scan_calls, mats_in>>

\* sec.Collect() returns (contrib.cpp:548); contrib_mises goes on to
\* SVDInsert with row_sizes = NumNeighbors (contrib.cpp:708-712).
CollectReturn(r) ==
    /\ pc[r] = "collect"
    /\ CollectComplete(r)
    /\ received_mats' = [received_mats EXCEPT ![r] = Collect(r)]
    /\ IF cfg.entry = "composite"
       THEN /\ pc' = [pc EXCEPT ![r] = "extend"]
            /\ UNCHANGED <<mis, row_sizes, mis_tent_interps, mis_numcoarsedof, num_coarse_dofs, pass_start>>
       ELSE /\ pc' = [pc EXCEPT ![r] = "svd"]
            /\ EnterSVDInsert(r, EntryRowSizes(r))
    /\ UNCHANGED <<topo, schur, provider, local_coarse_one_representation, filled_cols, tent_interp_, coarse_truedof_offset, finalized, msgs, sec_recv, scan_in, scan_calls, mats_in>>

\* contrib_composite extends with polynomials when num_nodes equals the
\* number of dofs and with rigid-body modes otherwise (contrib.cpp:728-737);
\* contrib_ones and contrib_linears always extend with polynomials.
UsesRBMs == cfg.entry = "composite" /\ NumNodes # ND

ExtensionAborts(recv, r) ==
    IF UsesRBMs
    THEN ExtendWithRBMsAborts(recv, r, cfg.sd, NumNodes)
    ELSE ExtendWithPolynomialsAborts(recv, r, cfg.order)

\* The slots recv after the extension the entry point applies.
ExtensionOf(recv, r) ==
    IF UsesRBMs
    THEN ExtendWithRBMs(recv, r, cfg.sd, NumNodes, coords)
    ELSE ExtendWithPolynomials(recv, r, cfg.order, cfg.sd, NumNodes, coords)

ExtendFilteredMutant(r) ==
    ExtensionOf([g \in Mises |-> IF received_mats[r][g] = NULL THEN NULL
                                 ELSE FilteredSlot(received_mats[r][g], g, Len(received_mats[r][g]))], r)

\* received_mats after the extension the entry point applies.
Extended(r) == ExtensionOf(received_mats[r], r)

\* ExtendWithConstants / ExtendWithPolynomials as called by contrib_ones and
\* contrib_linears on zeroed slots (contrib.cpp:455-459, 479-482) and the
\* extension of contrib_composite on the collected ones, then the call of
\* SVDInsert.
Extend(r) ==
    /\ pc[r] = "extend" \/ (pc[r] = "start" /\ ~UsesExchange)
    /\ mats_in' = [mats_in EXCEPT ![r] = received_mats[r]]
    /\ IF ExtensionAborts(received_mats[r], r)
       THEN /\ pc' = [pc EXCEPT ![r] = "aborted"]
            /\ UNCHANGED <<received_mats, mis, row_sizes, mis_tent_interps, mis_numcoarsedof, num_coarse_dofs, pass_start>>
       ELSE /\ pc' = [pc EXCEPT ![r] = "svd"]
            /\ received_mats' = [received_mats EXCEPT ![r] = Extended(r)]
            /\ EnterSVDInsert(r, EntryRowSizes(r))
    /\ UNCHANGED <<topo, schur, provider, local_coarse_one_representation, filled_cols, tent_interp_, coarse_truedof_offset, finalized, msgs, sec_recv, scan_in, scan_calls>>

\* One iteration of SVDInsert's loop over the MISes (contrib.cpp:564-680).
SVDInsertMis(r) ==
    /\ pc[r] = "svd"
    /\ mis[r] < num_mises(r)
    /\ \E g \in {LocalMis(r, mis[r])} :
       \E b \in {MisBranch(r, g, received_mats[r][g], row_sizes[r][g])} :
       \E basis \in {MisBasis(r, g, received_mats[r][g], row_sizes[r][g])} :
       \E ins \in {contrib_tent_insert_simple(tent_interp_[r], filled_cols[r], basis, mis_to_dof(g))} :
       \E filled_cols_l \in {ins.filled_cols - filled_cols[r]} :
          IF \/ b = "abort"
             \/ MisInserts(b) /\ InsertSimpleAborts(basis)
             \/ MisInserts(b) /\ filled_cols_l # Width(basis)
          THEN /\ pc' = [pc EXCEPT ![r] = "aborted"]
               /\ UNCHANGED <<mis, received_mats, filled_cols, tent_interp_, mis_tent_interps, mis_numcoarsedof, num_coarse_dofs, local_coarse_one_representation>>
          ELSE /\ pc' = pc
               /\ mis' = [mis EXCEPT ![r] = @ + 1]
               /\ mis_tent_interps' = [mis_tent_interps EXCEPT ![r][g] = basis]
               /\ received_mats' = [received_mats EXCEPT ![r][g] = NULL]
               /\ IF MisInserts(b)
                  THEN /\ tent_interp_' = [tent_interp_ EXCEPT ![r] = ins.tent]
                       /\ filled_cols' = [filled_cols EXCEPT ![r] = ins.filled_cols]
                       /\ mis_numcoarsedof' = [mis_numcoarsedof EXCEPT ![r][g] = filled_cols_l]
                       /\ num_coarse_dofs' = [num_coarse_dofs EXCEPT ![r] = @ + filled_cols_l]
                       /\ local_coarse_one_representation' =
                              IF scaling_P /\ filled_cols_l > 0
                              THEN [local_coarse_one_representation EXCEPT ![r] = ScalingAppend(@, basis, g)]
                              ELSE local_coarse_one_representation
                  ELSE /\ mis_numcoarsedof' = [mis_numcoarsedof EXCEPT ![r][g] = 0]
                       /\ UNCHANGED <<tent_interp_, filled_cols, num_coarse_dofs, local_coarse_one_representation>>
    /\ UNCHANGED <<topo, schur, provider, pass_start, row_sizes, coarse_truedof_offset, finalized, msgs, sec_recv, scan_in, scan_calls, mats_in>>

ScanSkippedWhenZeroMutant(r) ==
    /\ pc[r] = "svd"
    /\ mis[r] = num_mises(r)
    /\ received_mats' = [received_mats EXCEPT ![r] = NoMats]
    /\ coarse_truedof_offset' = [coarse_truedof_offset EXCEPT ![r] = 0]
    /\ IF num_coarse_dofs[r] = 0
       THEN /\ pc' = [pc EXCEPT ![r] = "returned"]
            /\ UNCHANGED <<scan_in, scan_calls>>
       ELSE /\ scan_in' = [scan_in EXCEPT ![r] = num_coarse_dofs[r]]
            /\ scan_calls' = [scan_calls EXCEPT ![r] = @ + 1]
            /\ pc' = [pc EXCEPT ![r] = "scan"]
    /\ UNCHANGED <<topo, schur, provider, pass_start, local_coarse_one_representation, mis, row_sizes, filled_cols, tent_interp_, mis_tent_interps, mis_numcoarsedof, num_coarse_dofs, finalized, msgs, sec_recv, mats_in>>

\* After the loop: delete [] received_mats and the call of MPI_Scan
\* (contrib.cpp:681-684).
ScanEnter(r) ==
    /\ pc[r] = "svd"
    /\ mis[r] = num_mises(r)
    /\ received_mats' = [received_mats EXCEPT ![r] = NoMats]
    /\ coarse_truedof_offset' = [coarse_truedof_offset EXCEPT ![r] = 0]
    /\ scan_in' = [scan_in EXCEPT ![r] = num_coarse_dofs[r]]
    /\ scan_calls' = [scan_calls EXCEPT ![r] = @ + 1]
    /\ pc' = [pc EXCEPT ![r] = "scan"]
    /\ UNCHANGED <<topo, schur, provider, pass_start, local_coarse_one_representation, mis, row_sizes, filled_cols, tent_interp_, mis_tent_interps, mis_numcoarsedof, num_coarse_dofs, finalized, msgs, sec_recv, mats_in>>

\* MPI_Scan returns once the ranks 0 .. r have all entered it; SVDInsert
\* subtracts the rank's own count and returns (contrib.cpp:684-687).
ScanReturn(r) ==
    /\ pc[r] = "scan"
    /\ \A q \in 0 .. r : scan_in[q] # Unset
    /\ coarse_truedof_offset' = [coarse_truedof_offset EXCEPT ![r] = ScanOffset(r)]
    /\ pc' = [pc EXCEPT ![r] = "returned"]
    /\ UNCHANGED <<topo, schur, provider, pass_start, local_coarse_one_representation, mis, received_mats, row_sizes, filled_cols, tent_interp_, mis_tent_interps, mis_numcoarsedof, num_coarse_dofs, finalized, msgs, sec_recv, scan_in, scan_calls, mats_in>>

\* The caller finalizes the prolongator (contrib.cpp:73-95).
Finalize(r) ==
    /\ pc[r] = "returned"
    /\ filled_cols[r] >= 0
    /\ finalized' = [finalized EXCEPT ![r] = contrib_tent_finalize(tent_interp_[r], ND, filled_cols[r])]
    /\ tent_interp_' = [tent_interp_ EXCEPT ![r] = <<>>]
    /\ pc' = [pc EXCEPT ![r] = "finalized"]
    /\ UNCHANGED <<topo, schur, provider, pass_start, local_coarse_one_representation, mis, received_mats, row_sizes, filled_cols, mis_tent_interps, mis_numcoarsedof, num_coarse_dofs, coarse_truedof_offset, msgs, sec_recv, scan_in, scan_calls, mats_in>>

Next ==
    \/ \E r \in Ranks : ReduceSend(r)
    \/ \E m \in msgs : Receive(m)
    \/ \E r \in Ranks : CollectReturn(r)
    \/ \E r \in Ranks : Extend(r)
    \/ \E r \in Ranks : SVDInsertMis(r)
    \/ \E r \in Ranks : ScanEnter(r)
    \/ \E r \in Ranks : ScanReturn(r)
    \/ \E r \in Ranks : Finalize(r)

Spec == Init /\ [][Next]_vars


\* ---------------------------------------------------------------- kernels
\* The matrix routines called directly on rank 0 with inputs drawn from
\* bounded sets: every nonzero entry of an input matrix is the tag
\* 10 * column + row, so that any move of an entry shows.
Tag(k, j) == 10 * j + k
TagMat(h, w) == Mat(h, [j \in 1 .. w |-> [k \in 1 .. h |-> Tag(k, j)]])
PatternedMats(h, w) ==
    {Mat(h, [j \in 1 .. w |-> [k \in 1 .. h |-> IF <<k, j>> \in Z THEN 0 ELSE Tag(k, j)]]) : Z \in SUBSET ((1 .. h) \X (1 .. w))}

\* An order and a spatial dimension the extensions do not support.
UnsupportedOrder == 2
UnsupportedDimension == 4

KernelConfigs ==
    {[entry |-> "constants", order |-> 0, sd |-> 1]}
      \cup {[entry |-> "polynomials", order |-> o, sd |-> d] : o \in {0, 1, UnsupportedOrder}, d \in {1, 2}}
      \cup {[entry |-> "rbms", order |-> 0, sd |-> d] : d \in {1, 2, 3, UnsupportedDimension}}

CoordChoices(n) == {[i \in 0 .. n - 1 |-> i + 1], [i \in 0 .. n - 1 |-> 0 - (2 * i + 1)]}

KernelRanks ==
    /\ pc = [r \in Ranks |-> IF r = 0 THEN "kernel" ELSE "idle"]
    /\ mis = [r \in Ranks |-> 0]
    /\ row_sizes = [r \in Ranks |-> [g \in Mises |-> 0]]
    /\ filled_cols = [r \in Ranks |-> 0]
    /\ tent_interp_ = [r \in Ranks |-> <<>>]
    /\ mis_tent_interps = [r \in Ranks |-> NoBases]
    /\ mis_numcoarsedof = [r \in Ranks |-> NoCounts]
    /\ num_coarse_dofs = [r \in Ranks |-> 0]
    /\ coarse_truedof_offset = [r \in Ranks |-> Unset]
    /\ finalized = [r \in Ranks |-> NoMatrix]
    /\ local_coarse_one_representation = [r \in Ranks |-> <<>>]
    /\ msgs = {}
    /\ sec_recv = [r \in Ranks |-> [g \in Mises |-> <<>>]]
    /\ scan_in = [r \in Ranks |-> Unset]
    /\ scan_calls = [r \in Ranks |-> 0]
    /\ mats_in = [r \in Ranks |-> NoMats]
    /\ pass_start = [r \in Ranks |-> Unset]
    /\ cut_evects_arr = [r \in Ranks |-> Mat(ND, <<>>)]
    /\ omitted = {}
    /\ schur = NoSchur
    /\ provider = NoProvider
    /\ scaling_P = FALSE

\* contrib_filter_boundary on the single contribution of MIS 0.
KernelInitFilter ==
    /\ cfg = [entry |-> "filter", order |-> 0, sd |-> 1]
    /\ sharers = [g \in Mises |-> {0}]
    /\ mis_master = [g \in Mises |-> 0]
    /\ mises_size \in [Mises -> 1 .. MaxH]
    /\ \A g \in Mises : g # 0 => mises_size[g] = 1
    /\ avoid_ess_bdr_dofs \in BOOLEAN
    /\ ess_bdr \in SUBSET (0 .. mises_size[0] - 1)
    /\ coords = <<>>
    /\ \E w \in 0 .. MaxW : \E M \in PatternedMats(mises_size[0], w) :
          received_mats = [r \in Ranks |-> [g \in Mises |-> IF r = 0 /\ g = 0 THEN <<M>> ELSE NULL]]
    /\ KernelRanks

\* The extensions on the contributions rank 0 holds after the exchange.
KernelInitExtend ==
    /\ cfg \in KernelConfigs
    /\ mis_master \in [Mises -> Ranks]
    /\ sharers = [g \in Mises |-> {0, mis_master[g]}]
    /\ \E nodes \in [Mises -> 1 .. MaxNodes] :
          mises_size = [g \in Mises |-> nodes[g] * (IF cfg.entry = "rbms" THEN cfg.sd ELSE 1)]
    /\ avoid_ess_bdr_dofs = FALSE
    /\ ess_bdr = {}
    /\ coords \in CoordChoices(cfg.sd * (IF cfg.entry = "rbms" THEN ND \div cfg.sd ELSE ND))
    /\ \E ws \in [Mises -> Unset .. MaxW] :
          received_mats = [r \in Ranks |-> [g \in Mises |-> IF r = 0 /\ ws[g] # Unset THEN <<TagMat(mises_size[g], ws[g])>> ELSE NULL]]
    /\ KernelRanks

\* The insertion routines, called one after another on the builder of rank
\* 0 with the dof lists of its MISes.
KernelInitInsert ==
    /\ cfg = [entry |-> "insert", order |-> 0, sd |-> 1]
    /\ sharers = [g \in Mises |-> {0}]
    /\ mis_master = [g \in Mises |-> 0]
    /\ mises_size \in [Mises -> 1 .. 2]
    /\ avoid_ess_bdr_dofs \in BOOLEAN
    /\ ess_bdr \in (IF avoid_ess_bdr_dofs THEN {{}, {0}} ELSE {{}})
    /\ coords = <<>>
    /\ received_mats = [r \in Ranks |-> NoMats]
    /\ KernelRanks

KernelInit == KernelInitFilter \/ KernelInitExtend \/ KernelInitInsert

KernelFrame == UNCHANGED <<topo, schur, provider, pass_start, local_coarse_one_representation, mis, row_sizes, filled_cols, tent_interp_, mis_tent_interps, mis_numcoarsedof, num_coarse_dofs, coarse_truedof_offset, finalized, msgs, sec_recv, scan_in, scan_calls>>

\* A direct call of ContribTent::contrib_filter_boundary (contrib.cpp:102).
CallFilterBoundary ==
    /\ pc[0] = "kernel"
    /\ cfg.entry = "filter"
    /\ mats_in' = [mats_in EXCEPT ![0] = received_mats[0]]
    /\ IF FilterAborts(received_mats[0][0][1])
       THEN /\ pc' = [pc EXCEPT ![0] = "aborted"]
            /\ UNCHANGED received_mats
       ELSE /\ pc' = [pc EXCEPT ![0] = "done"]
            /\ received_mats' = [received_mats EXCEPT ![0][0][1] = contrib_filter_boundary(@, mis_to_dof(0))]
    /\ KernelFrame

\* A direct call of ContribTent::ExtendWithConstants (contrib.cpp:293-299).
CallExtendWithConstants ==
    /\ pc[0] = "kernel"
    /\ cfg.entry = "constants"
    /\ mats_in' = [mats_in EXCEPT ![0] = received_mats[0]]
    /\ IF ExtendWithPolynomialsAborts(received_mats[0], 0, 0)
       THEN /\ pc' = [pc EXCEPT ![0] = "aborted"]
            /\ UNCHANGED received_mats
       ELSE /\ pc' = [pc EXCEPT ![0] = "done"]
            /\ received_mats' = [received_mats EXCEPT ![0] = ExtendWithPolynomials(@, 0, 0, Unset, Unset, <<>>)]
    /\ KernelFrame

\* A direct call of ContribTent::ExtendWithPolynomials (contrib.cpp:302).
CallExtendWithPolynomials ==
    /\ pc[0] = "kernel"
    /\ cfg.entry = "polynomials"
    /\ mats_in' = [mats_in EXCEPT ![0] = received_mats[0]]
    /\ IF ExtendWithPolynomialsAborts(received_mats[0], 0, cfg.order)
       THEN /\ pc' = [pc EXCEPT ![0] = "aborted"]
            /\ UNCHANGED received_mats
       ELSE /\ pc' = [pc EXCEPT ![0] = "done"]
            /\ received_mats' = [received_mats EXCEPT ![0] = ExtendWithPolynomials(@, 0, cfg.order, cfg.sd, ND, coords)]
    /\ KernelFrame

\* A direct call of ContribTent::ExtendWithRBMs (contrib.cpp:353).
CallExtendWithRBMs ==
    /\ pc[0] = "kernel"
    /\ cfg.entry = "rbms"
    /\ mats_in' = [mats_in EXCEPT ![0] = received_mats[0]]
    /\ IF ExtendWithRBMsAborts(received_mats[0], 0, cfg.sd, ND \div cfg.sd)
       THEN /\ pc' = [pc EXCEPT ![0] = "aborted"]
            /\ UNCHANGED received_mats
       ELSE /\ pc' = [pc EXCEPT ![0] = "done"]
            /\ received_mats' = [received_mats EXCEPT ![0] = ExtendWithRBMs(@, 0, cfg.sd, ND \div cfg.sd, coords)]
    /\ KernelFrame

\* The matrices handed to the insertion routines for a MIS of h dofs.
InsertMats(h) ==
    PatternedMats(h, 1) \cup PatternedMats(h, 2) \cup {Mat(h, <<>>), TagMat(h, h + 1)}

\* What a call of an insertion routine leaves alone.
\* The matrices handed to the routines of a sequence of calls.
SequenceMats(h) ==
    {TagMat(h, 1), TagMat(h, 2), Mat(h, <<ZeroCol(h), TagMat(h, 1).cols[1]>>)}

InsertFrame == UNCHANGED <<topo, schur, provider, pass_start, local_coarse_one_representation, mis, row_sizes, mis_tent_interps, mis_numcoarsedof, num_coarse_dofs, coarse_truedof_offset, finalized, msgs, sec_recv, scan_in, scan_calls>>

\* A direct call of ContribTent::contrib_tent_insert_simple (contrib.cpp:170)
\* with the matrix M and the dof list of MIS g.
CallInsertSimple ==
    /\ cfg.entry \in {"insert", "sequence"}
    /\ pc[0] \in {"kernel", "returned"}
    /\ filled_cols[0] < MaxFilled
    /\ \E g \in Mises : \E M \in (IF cfg.entry = "insert" THEN InsertMats(mises_size[g]) ELSE SequenceMats(mises_size[g])) :
          /\ mats_in' = [mats_in EXCEPT ![0] = [q \in Mises |-> IF q = g THEN <<M>> ELSE NULL]]
          /\ received_mats' = [received_mats EXCEPT ![0] = [q \in Mises |-> IF q = g THEN <<M>> ELSE NULL]]
          /\ IF InsertSimpleAborts(M)
             THEN /\ pc' = [pc EXCEPT ![0] = "aborted"]
                  /\ UNCHANGED <<tent_interp_, filled_cols>>
             ELSE /\ pc' = [pc EXCEPT ![0] = "kernel"]
                  /\ tent_interp_' = [tent_interp_ EXCEPT ![0] = contrib_tent_insert_simple(tent_interp_[0], filled_cols[0], M, mis_to_dof(g)).tent]
                  /\ filled_cols' = [filled_cols EXCEPT ![0] = contrib_tent_insert_simple(tent_interp_[0], filled_cols[0], M, mis_to_dof(g)).filled_cols]
    /\ InsertFrame

\* A caller that runs insertion routines and whole SVDInsert passes one
\* after another on the builder of rank 0.
KernelInitSequence ==
    /\ cfg = [entry |-> "sequence", order |-> 0, sd |-> 1]
    /\ sharers = [g \in Mises |-> {0}]
    /\ mis_master = [g \in Mises |-> 0]
    /\ mises_size \in [Mises -> 1 .. 2]
    /\ avoid_ess_bdr_dofs \in BOOLEAN
    /\ ess_bdr \in (IF avoid_ess_bdr_dofs THEN {{}, {0}} ELSE {{}})
    /\ coords = <<>>
    /\ received_mats = [r \in Ranks |-> NoMats]
    /\ KernelRanks

\* The caller of rank 0 is between two calls.
BetweenCalls == pc[0] \in {"kernel", "returned"} /\ filled_cols[0] < MaxFilled

\* A direct call of ContribTent::contrib_tent_insert_from_local
\* (contrib.cpp:208) with the matrix M and the dof list of MIS g.
CallInsertFromLocal ==
    /\ cfg.entry = "sequence"
    /\ BetweenCalls
    /\ \E g \in Mises : \E M \in SequenceMats(mises_size[g]) :
       \E ins \in {contrib_tent_insert_from_local(tent_interp_[0], filled_cols[0], M, mis_to_dof(g))} :
          /\ mats_in' = [mats_in EXCEPT ![0] = [q \in Mises |-> IF q = g THEN <<M>> ELSE NULL]]
          /\ IF Width(M) = 0 \/ Height(M) < Width(M)
             THEN /\ pc' = [pc EXCEPT ![0] = "aborted"]
                  /\ received_mats' = [received_mats EXCEPT ![0] = [q \in Mises |-> IF q = g THEN <<M>> ELSE NULL]]
                  /\ UNCHANGED <<tent_interp_, filled_cols>>
             ELSE IF InsertFromLocalAborts(M, mis_to_dof(g))
             THEN /\ pc' = [pc EXCEPT ![0] = "aborted"]
                  /\ received_mats' = [received_mats EXCEPT ![0] = [q \in Mises |-> IF q = g THEN <<M>> ELSE NULL]]
                  /\ tent_interp_' = [tent_interp_ EXCEPT ![0] = ins.tent]
                  /\ UNCHANGED filled_cols
             ELSE /\ pc' = [pc EXCEPT ![0] = "kernel"]
                  /\ received_mats' = [received_mats EXCEPT ![0] = [q \in Mises |-> IF q = g THEN <<ins.local>> ELSE NULL]]
                  /\ tent_interp_' = [tent_interp_ EXCEPT ![0] = ins.tent]
                  /\ filled_cols' = [filled_cols EXCEPT ![0] = ins.filled_cols]
    /\ InsertFrame

\* A call of ContribTent::SVDInsert (contrib.cpp:548) with one contribution
\* per MIS and row sizes 1: the prologue; the loop, the scan and the return
\* are the steps of SVDInsertMis, ScanEnter and ScanReturn.
CallSVDInsert ==
    /\ cfg.entry = "sequence"
    /\ BetweenCalls
    /\ \E slots \in [Mises -> UNION {SequenceMats(h) : h \in 1 .. 2}] :
          /\ \A g \in Mises : slots[g] \in SequenceMats(mises_size[g])
          /\ received_mats' = [received_mats EXCEPT ![0] = [g \in Mises |-> <<slots[g]>>]]
          /\ mats_in' = [mats_in EXCEPT ![0] = [g \in Mises |-> <<slots[g]>>]]
    /\ pc' = [pc EXCEPT ![0] = "svd"]
    /\ EnterSVDInsert(0, [g \in Mises |-> 1])
    /\ UNCHANGED <<topo, schur, provider, local_coarse_one_representation, filled_cols, tent_interp_, coarse_truedof_offset, finalized, msgs, sec_recv, scan_in, scan_calls>>

SequenceNext ==
    \/ CallInsertSimple
    \/ CallInsertFromLocal
    \/ CallSVDInsert
    \/ \E r \in Ranks : SVDInsertMis(r)
    \/ \E r \in Ranks : ScanEnter(r)
    \/ \E r \in Ranks : ScanReturn(r)
    \/ \E r \in Ranks : Finalize(r)

SequenceSpec == KernelInitSequence /\ [][SequenceNext]_vars

KernelNext ==
    \/ CallInsertSimple
    \/ CallFilterBoundary
    \/ CallExtendWithConstants
    \/ CallExtendWithPolynomials
    \/ CallExtendWithRBMs

KernelSpec == KernelInit /\ [][KernelNext]_vars

\* The entry points and the direct calls together.
ContribSpec == (Init \/ KernelInit) /\ [][Next \/ KernelNext]_vars


\* ------------------------------------------------------- SchurSolver run
\* The builder is not in use while the solver runs.
BuilderIdle ==
    /\ sharers = [g \in Mises |-> {0}]
    /\ mis_master = [g \in Mises |-> 0]
    /\ mises_size = [g \in Mises |-> 1]
    /\ avoid_ess_bdr_dofs = FALSE
    /\ ess_bdr = {}
    /\ cfg = [entry |-> "schur", order |-> 0, sd |-> 1]
    /\ cut_evects_arr = [r \in Ranks |-> Mat(0, <<>>)]
    /\ coords = <<>>
    /\ omitted = {}
    /\ scaling_P = FALSE
    /\ pc = [r \in Ranks |-> "idle"]
    /\ FreshRanks

\* The systems the solver is given: the interior block and the whole
\* operator are invertible.
SchurInit ==
    /\ BuilderIdle
    /\ provider = NoProvider
    /\ \E ii \in [1 .. NumInterior -> [1 .. NumInterior -> Entries]] :
       \E if \in [1 .. NumInterior -> Entries] :
       \E fi \in [1 .. NumInterior -> Entries] :
       \E ff \in Entries :
       \E rhs \in [1 .. NumInterior + 1 -> 0 .. MaxEntry] :
          /\ Det2(ii) # 0
          /\ Det3(FullMatrix([ii |-> ii, if |-> if, fi |-> fi, ff |-> ff])) # 0
          /\ schur = [stage |-> "given", A |-> [ii |-> ii, if |-> if, fi |-> fi, ff |-> ff], rhs |-> rhs]

\* A call of SchurSolver::Mult(rhs, y).
Mult ==
    /\ schur.stage = "given"
    /\ schur' = [stage |-> "solved", A |-> schur.A, rhs |-> schur.rhs, y |-> SchurSolverMult(schur.A, schur.rhs)]
    /\ UNCHANGED <<topo, provider, pass_start, local_coarse_one_representation, pc, mis, received_mats, row_sizes, filled_cols, tent_interp_, mis_tent_interps, mis_numcoarsedof, num_coarse_dofs, coarse_truedof_offset, finalized, msgs, sec_recv, scan_in, scan_calls, mats_in>>

SchurNext == Mult

SchurSpec == SchurInit /\ [][SchurNext]_vars


\* ------------------------------------------------------ ElementIPMatrix
\* The aggregates interp_data_nonconf holds a matrix for, the elements a
\* per-element query may name, and the matrices held.
AEs == 0 .. NumAEs - 1
Elements == 0 .. NumAEs
AEMatrices == {Mat(2, <<<<a, b>>, <<b, c>>>>) : a \in Entries, b \in Entries, c \in Entries}

\* nonconf_AE_matrix(interp_data_nonconf, elno): the matrix of agglomerate
\* elno collected from interp_data_nonconf.
nonconf_AE_matrix(interp_data_nonconf, elno) == interp_data_nonconf[elno]

GetMatrixReturnsEmptyMutant(elno) == FALSE

\* SA_ASSERT(false) at the head of ElementIPMatrix::GetMatrix.
GetMatrixAborts(elno) == ~FALSE

ProviderInit ==
    /\ BuilderIdle
    /\ schur = NoSchur
    /\ \E data \in [AEs -> AEMatrices] :
          provider = [stage |-> "ready", interp_data_nonconf |-> data, query |-> "none",
                      elno |-> Unset, result |-> NoMatrix, free_matr |-> FALSE]

ProviderFrame == UNCHANGED <<topo, schur, pass_start, local_coarse_one_representation, pc, mis, received_mats, row_sizes, filled_cols, tent_interp_, mis_tent_interps, mis_numcoarsedof, num_coarse_dofs, coarse_truedof_offset, finalized, msgs, sec_recv, scan_in, scan_calls, mats_in>>

\* ElementIPMatrix::GetMatrix(elno, free_matr).
GetMatrix(elno) ==
    /\ provider.stage = "ready"
    /\ IF GetMatrixAborts(elno)
       THEN provider' = [provider EXCEPT !.stage = "aborted", !.query = "GetMatrix", !.elno = elno, !.result = NoMatrix]
       ELSE provider' = [provider EXCEPT !.query = "GetMatrix", !.elno = elno, !.result = Mat(0, <<>>), !.free_matr = TRUE]
    /\ ProviderFrame

\* ElementIPMatrix::BuildAEStiff(elno).
BuildAEStiff(elno) ==
    /\ provider.stage = "ready"
    /\ provider' = [provider EXCEPT !.query = "BuildAEStiff", !.elno = elno,
                                    !.result = nonconf_AE_matrix(provider.interp_data_nonconf, elno)]
    /\ ProviderFrame

ProviderNext ==
    \/ \E elno \in Elements : GetMatrix(elno)
    \/ \E elno \in AEs : BuildAEStiff(elno)

ProviderSpec == ProviderInit /\ [][ProviderNext]_vars

\* ------------------------------------------------- asymmetric exchange
\* Some MIS shared by several ranks is missing from the relations of its
\* owner, while the other ranks sharing it hold it; every rank runs
\* contrib_mises or contrib_composite on inputs it accepts.
OmitInit ==
    /\ Setup
    /\ UsesExchange /\ cfg.sd = 1
    /\ \A r \in Ranks : Width(cut_evects_arr[r]) >= 1
    /\ omitted \in (SUBSET {g \in Mises : NumNeighbors(g) >= 2}) \ {{}}

OmitSpec == OmitInit /\ [][Next]_vars


\* ================================================================ claims
\* The MISes rank r has finished in its SVDInsert pass.
Processed(r, g) == g \in LocalMises(r) /\ mis_numcoarsedof[r][g] # Unset
SVDInsertDone(r) == pc[r] \in {"scan", "returned", "finalized"}
SVDInsertReturned(r) == pc[r] \in {"returned", "finalized"}
IsOneByOneIdentity(b) == b = [h |-> 1, cols |-> <<<<1>>>>, n2 |-> <<1>>]
IsEmptyBasis(b, h) == b = [h |-> h, cols |-> <<>>, n2 |-> <<>>]
SingleDofOnBorder(g) == avoid_ess_bdr_dofs /\ MisBase(g) \in ess_bdr

\* C1 as stated: every owned single-dof MIS gets the 1x1 basis [1.0] and one
\* coarse dof, whatever the avoid-boundary option and the dof's flag.
C1_SingleDofAlwaysIdentity ==
    \A r \in Ranks : \A g \in OwnedMises(r) :
        (Processed(r, g) /\ mises_size[g] = 1)
            => /\ IsOneByOneIdentity(mis_tent_interps[r][g])
               /\ mis_numcoarsedof[r][g] = 1

\* C1 amended: an owned single-dof MIS gets the 1x1 basis [1.0] and one coarse
\* dof whatever was received for it, unless avoid-boundary is enabled and its
\* dof is an essential-boundary dof: then it gets a 1x0 basis and no coarse dof.
C1_SingleDofIdentityUnlessBoundary ==
    \A r \in Ranks : \A g \in OwnedMises(r) :
        (Processed(r, g) /\ mises_size[g] = 1)
            => IF SingleDofOnBorder(g)
               THEN /\ IsEmptyBasis(mis_tent_interps[r][g], 1)
                    /\ mis_numcoarsedof[r][g] = 0
               ELSE /\ IsOneByOneIdentity(mis_tent_interps[r][g])
                    /\ mis_numcoarsedof[r][g] = 1

C1_Witness ==
    \E r \in Ranks : \E g \in OwnedMises(r) :
        /\ Processed(r, g) /\ mises_size[g] = 1
        /\ cfg.entry = "mises" /\ NumNeighbors(g) = 2
        /\ avoid_ess_bdr_dofs /\ MisBase(g) \notin ess_bdr
        /\ mis_numcoarsedof[r][g] = 1

\* C2: after a SVDInsert pass on a fresh builder the count given to the
\* prefix sum is the sum of mis_numcoarsedof over the owned MISes and equals
\* filled_cols, the width of the matrix contrib_tent_finalize returns.
C2_LocalCountIsSumAndWidth ==
    \A r \in Ranks :
        /\ SVDInsertDone(r) =>
              /\ scan_in[r] = SumOver(mis_numcoarsedof[r], OwnedMises(r))
              /\ scan_in[r] = filled_cols[r]
        /\ pc[r] = "finalized" => finalized[r].width = scan_in[r]

C2_Witness ==
    \E r \in Ranks :
        /\ pc[r] = "finalized"
        /\ Cardinality(OwnedMises(r)) = 2
        /\ \E g \in OwnedMises(r) : mis_numcoarsedof[r][g] = 2
        /\ \E g \in OwnedMises(r) : mis_numcoarsedof[r][g] = 1
        /\ finalized[r].width = 3

\* C3: once all the ranks have finished SVDInsert, the offset of rank r is the
\* sum of the local counts of the ranks below it, so the global id ranges are
\* pairwise disjoint and cover 0 .. total-1.
C3_OffsetsAreExclusivePrefixSums ==
    (\A r \in Ranks : SVDInsertReturned(r)) =>
        /\ \A r \in Ranks : coarse_truedof_offset[r] = SumOver(num_coarse_dofs, {q \in Ranks : q < r})
        /\ \A id \in 0 .. SumOver(num_coarse_dofs, Ranks) - 1 :
              Cardinality({r \in Ranks : coarse_truedof_offset[r] <= id /\ id < coarse_truedof_offset[r] + num_coarse_dofs[r]}) = 1

C3_Witness ==
    /\ \A r \in Ranks : SVDInsertReturned(r)
    /\ \A r \in Ranks : num_coarse_dofs[r] >= 1
    /\ \E r \in Ranks : num_coarse_dofs[r] >= 2

\* C4: when the owner's Collect has returned, it holds for a MIS shared by k
\* ranks exactly k matrices, the one each sharing rank sent, and SVDInsert is
\* given the row size k for it.
HoldsCollected(r, g) ==
    \/ pc[r] = "extend"
    \/ pc[r] = "svd" /\ cfg.entry = "mises" /\ ~Processed(r, g)

C4_OwnerCollectsOnePerSharer ==
    \A r \in Ranks : \A g \in OwnedMises(r) :
        (UsesExchange /\ HoldsCollected(r, g)) =>
            /\ Len(received_mats[r][g]) = Cardinality(sharers[g])
            /\ \E f \in [1 .. Len(received_mats[r][g]) -> sharers[g]] :
                  /\ \A s \in sharers[g] : \E q \in DOMAIN f : f[q] = s
                  /\ \A q \in DOMAIN f : received_mats[r][g][q] = send_mat(f[q], g)
            /\ pc[r] = "svd" => row_sizes[r][g] = Cardinality(sharers[g])

C4_Witness ==
    \E r \in Ranks : \E g \in OwnedMises(r) :
        /\ pc[r] = "svd" /\ cfg.entry = "mises" /\ ~Processed(r, g)
        /\ Cardinality(sharers[g]) = 2
        /\ Len(received_mats[r][g]) = 2
        /\ received_mats[r][g][1] # received_mats[r][g][2]


\* ------------------------------------------------------------- liveness
\* Every rank is a running process and MPI delivers every message that was
\* sent: as long as some step is possible, a step is eventually taken.  The
\* runs start from the states of Init with a one-dof and a two-dof MIS, one
\* dof per node, no scaling and, when the boundary is avoided, a flagged dof.
FairInit ==
    /\ Init
    /\ mises_size = [g \in Mises |-> g + 1]
    /\ cfg.sd = 1
    /\ ~scaling_P
    /\ avoid_ess_bdr_dofs => ess_bdr # {}

FairSpec == FairInit /\ [][Next]_vars /\ WF_vars(Next)

ExchangeDone(r) == pc[r] \notin {"start", "collect"}

\* C5: when every rank runs CommunicateEigenvectors in full (ReducePrepare,
\* one ReduceSend per local MIS, Collect), every rank's Collect eventually
\* returns, whatever the number of sharers and the order of the messages.
C5_CollectEventuallyReturns ==
    UsesExchange => <>(\A r \in Ranks : ExchangeDone(r))

C5_Witness ==
    /\ cfg.entry = "mises"
    /\ \A r \in Ranks : ExchangeDone(r)
    /\ \E g \in Mises : Cardinality(sharers[g]) = 2
    /\ \E r \in Ranks : Width(cut_evects_arr[r]) = 0 /\ LocalMises(r) \ OwnedMises(r) # {}


JobAborted == \E r \in Ranks : pc[r] = "aborted"

\* What holds of MPI_Scan on every rank at every moment: it is not called
\* before the loop over the MISes has ended, never twice, and SVDInsert has
\* not returned without it.
ScanDiscipline ==
    \A r \in Ranks :
        /\ scan_calls[r] \in {0, 1}
        /\ pc[r] \in {"start", "collect", "extend"} => scan_calls[r] = 0
        /\ pc[r] = "svd" => scan_calls[r] = 0
        /\ scan_calls[r] = 1 => mis[r] = num_mises(r)
        /\ SVDInsertReturned(r) => scan_calls[r] = 1

\* SVDInsert is entered from the entry point only, and never again.
SVDInsertEnteredOnce ==
    \A r \in Ranks :
        /\ (pc[r] # "svd" /\ pc'[r] = "svd") => pc[r] \in {"start", "collect", "extend"}
        /\ pc[r] \in {"svd", "scan", "returned", "finalized", "aborted"} => pc'[r] \in {"svd", "scan", "returned", "finalized", "aborted"}
        /\ pc[r] \in {"scan", "returned", "finalized", "aborted"} => pc'[r] # "svd"

\* C6: every call of SVDInsert that returns has called MPI_Scan exactly
\* once, after the loop over the MISes, whichever branches the loop took and
\* also with a local count of zero or no owned MIS; every entry point calls
\* SVDInsert once; and when all ranks call the same entry point, the scan
\* returns on every rank unless a failed assertion aborts the job.
C6_ScanOnceAndCompletes ==
    /\ [](ScanDiscipline)
    /\ [][SVDInsertEnteredOnce]_vars
    /\ <>(JobAborted \/ \A r \in Ranks : SVDInsertReturned(r))

C6_Witness ==
    /\ \A r \in Ranks : SVDInsertReturned(r) /\ scan_calls[r] = 1
    /\ \E r \in Ranks : OwnedMises(r) = {} /\ LocalMises(r) # {}
    /\ \E r \in Ranks : num_coarse_dofs[r] = 0
    /\ \E r \in Ranks : \E g \in OwnedMises(r) : mis_numcoarsedof[r][g] = 0 /\ mises_size[g] > 1


\* ------------------------------------------------- contrib_filter_boundary
\* The matrix handed to the direct call and the matrix it left.
FilterCalled == cfg.entry = "filter" /\ pc[0] \in {"done", "aborted"}
FilterIn == mats_in[0][0][1]
FilterOut == received_mats[0][0][1]
FlaggedRow(k) == avoid_ess_bdr_dofs /\ mis_to_dof(0)[k] \in ess_bdr

\* Input column j still has a nonzero entry once the flagged rows are zeroed.
Survives(j) == \E k \in 1 .. Height(FilterIn) : FilterIn.cols[j][k] # 0 /\ ~FlaggedRow(k)
Kept == {j \in 1 .. Width(FilterIn) : Survives(j)}

\* The input column that must stand at position i of the output.
KeptAt(i) == CHOOSE j \in Kept : Cardinality({q \in Kept : q < j}) = i - 1

\* C7: contrib_filter_boundary leaves exactly the filtered columns that still
\* have a nonzero entry, in their original relative order (every nonzero
\* entry of output column i carries the tag of the i-th surviving input
\* column); an all-zero column is removed without aborting.
C7_FilterKeepsNonzeroColumnsInOrder ==
    FilterCalled =>
        /\ pc[0] = "aborted" <=> Width(FilterIn) = 0
        /\ pc[0] = "done" =>
              /\ Width(FilterOut) = Cardinality(Kept)
              /\ \A i \in 1 .. Width(FilterOut) :
                    /\ ~IsZeroCol(FilterOut.cols[i])
                    /\ \A k \in 1 .. Height(FilterIn) : FilterOut.cols[i][k] \in {0, Tag(k, KeptAt(i))}

\* The 3x2 example: column 0 has its only nonzero at a flagged row, column 1
\* is full; the output has width 1 and holds the former column 1.
C7_Witness ==
    /\ FilterCalled /\ pc[0] = "done" /\ avoid_ess_bdr_dofs
    /\ Height(FilterIn) = 3 /\ Width(FilterIn) = 2
    /\ \E k \in 1 .. 3 :
          /\ FlaggedRow(k)
          /\ \A q \in 1 .. 3 : (FilterIn.cols[1][q] # 0) <=> (q = k)
          /\ \A q \in 1 .. 3 : FilterIn.cols[2][q] = Tag(q, 2)
          /\ \E q \in 1 .. 3 : ~FlaggedRow(q)
    /\ Width(FilterOut) = 1
    /\ \A q \in 1 .. 3 : FilterOut.cols[1][q] = IF FlaggedRow(q) THEN 0 ELSE Tag(q, 2)

\* C8: in every kept column the entry of row j is 0 when avoid-boundary is
\* enabled and restriction[j] is an essential-boundary dof, and the input
\* entry otherwise; the height is unchanged; with avoid-boundary disabled
\* every kept column equals its input column.
C8_FilterEntries ==
    (FilterCalled /\ pc[0] = "done") =>
        /\ Height(FilterOut) = Height(FilterIn)
        /\ \A i \in 1 .. Width(FilterOut) :
              /\ Len(FilterOut.cols[i]) = Height(FilterIn)
              /\ \A k \in 1 .. Height(FilterIn) :
                    FilterOut.cols[i][k] = IF FlaggedRow(k) THEN 0 ELSE FilterIn.cols[KeptAt(i)][k]
              /\ ~avoid_ess_bdr_dofs => FilterOut.cols[i] = FilterIn.cols[KeptAt(i)]

C8_Witness ==
    /\ FilterCalled /\ pc[0] = "done" /\ avoid_ess_bdr_dofs
    /\ Height(FilterIn) = 3 /\ Width(FilterIn) = 2 /\ Width(FilterOut) = 2
    /\ \E k \in 1 .. 3 : FlaggedRow(k) /\ FilterIn.cols[1][k] # 0 /\ FilterOut.cols[1][k] = 0
    /\ \E k \in 1 .. 3 : ~FlaggedRow(k) /\ FilterIn.cols[2][k] # 0 /\ FilterOut.cols[2][k] = FilterIn.cols[2][k]


\* ------------------------------------------------------------- extensions
\* The first matrix of the slot of MIS g before and after the direct call;
\* an absent slot counts as a matrix of width 0.
ExtendIn(g) == IF mats_in[0][g] = NULL THEN Mat(mises_size[g], <<>>) ELSE mats_in[0][g][1]
ExtendOut(g) == received_mats[0][g][1]
OldColumnsKept(g) ==
    \A j \in 1 .. Width(ExtendIn(g)) : ExtendOut(g).cols[j] = ExtendIn(g).cols[j]

OrderZeroCalled ==
    /\ pc[0] = "done"
    /\ cfg.entry = "constants" \/ (cfg.entry = "polynomials" /\ cfg.order = 0)

\* C9: ExtendWithPolynomials with order 0 turns, for every MIS the rank owns,
\* a contribution of width w >= 0 (an absent slot counting as width 0) into
\* one of width w + 1 and the same height, whose first w columns are the old
\* ones and whose last column is 1 in every row.
C9_ConstantsAppendOnesColumn ==
    OrderZeroCalled =>
        \A g \in OwnedMises(0) :
            /\ received_mats[0][g] # NULL
            /\ Height(ExtendOut(g)) = Height(ExtendIn(g))
            /\ Width(ExtendOut(g)) = Width(ExtendIn(g)) + 1
            /\ OldColumnsKept(g)
            /\ ExtendOut(g).cols[Width(ExtendIn(g)) + 1] = [k \in 1 .. mises_size[g] |-> 1]

C9_Witness ==
    /\ OrderZeroCalled /\ cfg.entry = "constants"
    /\ \E g \in OwnedMises(0) : mats_in[0][g] = NULL /\ mises_size[g] = 2 /\ ExtendOut(g) = Mat(2, <<<<1, 1>>>>)
    /\ \E g \in OwnedMises(0) : mats_in[0][g] # NULL /\ Width(ExtendIn(g)) = 2 /\ Width(ExtendOut(g)) = 3

RBM2DCalled == pc[0] = "done" /\ cfg.entry = "rbms" /\ cfg.sd = 2

\* The coordinates of node i (0-based) of MIS g in two dimensions.
NodeNumber(g, i) == mis_to_dof(g)[2 * i + 1] \div 2
NodeX(g, i) == coords[NodeNumber(g, i)]
NodeY(g, i) == coords[(ND \div 2) + NodeNumber(g, i)]

\* C10: ExtendWithRBMs in two dimensions turns, for every owned MIS of n
\* nodes, a contribution of width w into one of width w + 3: the first w
\* columns are the old ones, column w is 1 on x-dof rows and 0 on y-dof rows,
\* column w + 1 the reverse, and column w + 2 holds y_i on the x-dof row and
\* -x_i on the y-dof row of node i.
C10_RBM2DColumns ==
    RBM2DCalled =>
        \A g \in OwnedMises(0) :
            LET w == Width(ExtendIn(g))
                out == ExtendOut(g)
            IN /\ Height(out) = mises_size[g]
               /\ Width(out) = w + 3
               /\ OldColumnsKept(g)
               /\ \A i \in 0 .. (mises_size[g] \div 2) - 1 :
                     /\ out.cols[w + 1][2 * i + 1] = 1 /\ out.cols[w + 1][2 * i + 2] = 0
                     /\ out.cols[w + 2][2 * i + 1] = 0 /\ out.cols[w + 2][2 * i + 2] = 1
                     /\ out.cols[w + 3][2 * i + 1] = NodeY(g, i)
                     /\ out.cols[w + 3][2 * i + 2] = 0 - NodeX(g, i)

C10_Witness ==
    /\ RBM2DCalled
    /\ \E g \in OwnedMises(0) :
          /\ mises_size[g] = 4 /\ Width(ExtendIn(g)) = 2 /\ Width(ExtendOut(g)) = 5
          /\ NodeX(g, 0) # NodeX(g, 1) /\ NodeY(g, 0) # NodeY(g, 1) /\ NodeX(g, 0) # NodeY(g, 0)
          /\ ExtendOut(g).cols[5] = <<NodeY(g, 0), 0 - NodeX(g, 0), NodeY(g, 1), 0 - NodeX(g, 1)>>


\* ---------------------------------------------------------- SVD reduction
\* The contribution slots SVDInsert was called with on rank r: what Collect
\* returned, extended by the entry point.
SVDInsertInput(r) ==
    IF cfg.entry = "mises" THEN Collect(r)
    ELSE ExtensionOf(IF UsesExchange THEN Collect(r) ELSE NoMats, r)

\* The columns handed to the SVD for MIS g: the filtered contributions, side
\* by side.
SVDColumns(r, g) ==
    ConcatCols(FilteredSlot(SVDInsertInput(r)[g], g, row_sizes[r][g]), row_sizes[r][g])

LinearlyDependent(a, b) ==
    \A i \in 1 .. Len(a) : \A k \in 1 .. Len(a) : a[i] * b[k] = a[k] * b[i]

TwoDependentColumns(r, g) ==
    /\ Len(SVDColumns(r, g)) = 2
    /\ ~IsZeroCol(SVDColumns(r, g)[1]) /\ ~IsZeroCol(SVDColumns(r, g)[2])
    /\ LinearlyDependent(SVDColumns(r, g)[1], SVDColumns(r, g)[2])

\* The square of the Euclidean norm of column j of a local basis is
\* Dot(cols[j], cols[j]) / n2[j].
HasUnitNorm(b, j) == Dot(b.cols[j], b.cols[j]) = b.n2[j] /\ b.n2[j] > 0

\* C11: an owned MIS of at least two dofs whose filtered contributions are
\* two linearly dependent nonzero columns gets a local basis of width 1 and
\* one coarse dof, and that column has Euclidean norm 1.
C11_DependentColumnsGiveWidthOne ==
    \A r \in Ranks : \A g \in OwnedMises(r) :
        (/\ Processed(r, g) /\ mises_size[g] >= 2
         /\ ~(avoid_ess_bdr_dofs /\ AllOnBorder(g))
         /\ TwoDependentColumns(r, g))
            => /\ Width(mis_tent_interps[r][g]) = 1
               /\ mis_numcoarsedof[r][g] = 1
               /\ HasUnitNorm(mis_tent_interps[r][g], 1)
               /\ LinearlyDependent(mis_tent_interps[r][g].cols[1], SVDColumns(r, g)[1])

C11_Witness ==
    \E r \in Ranks : \E g \in OwnedMises(r) :
        /\ Processed(r, g) /\ mises_size[g] = 2 /\ ~avoid_ess_bdr_dofs
        /\ cfg.entry = "mises" /\ NumNeighbors(g) = 2
        /\ TwoDependentColumns(r, g)
        /\ Width(mis_tent_interps[r][g]) = 1


\* --------------------------------------------------------------- locality
\* The first column of owned MIS g on rank r: the coarse dofs of a rank are
\* numbered MIS by MIS, in increasing local MIS index.
FirstColumn(r, g) ==
    SumOver([q \in Mises |-> IF Processed(r, q) THEN mis_numcoarsedof[r][q] ELSE 0], {q \in OwnedMises(r) : q < g})

ColumnsOf(r, g) == FirstColumn(r, g) .. FirstColumn(r, g) + mis_numcoarsedof[r][g] - 1
DofsOf(g) == {mis_to_dof(g)[k] : k \in 1 .. mises_size[g]}

\* Every nonzero entry of E lies in a column of some processed owned MIS and
\* in a row of that MIS.
EntriesAreLocal(r, E) ==
    \A p \in DOMAIN E :
        E[p].num # 0 =>
            \E g \in OwnedMises(r) : Processed(r, g) /\ p[2] \in ColumnsOf(r, g) /\ p[1] \in DofsOf(g)

\* C12: in every reachable state of the builder and in the finalized
\* prolongator, each column has nonzero entries only in the rows of the dof
\* list of the one MIS whose local basis produced the column.
C12_ColumnsAreLocalToTheirMis ==
    \A r \in Ranks :
        /\ EntriesAreLocal(r, tent_interp_[r])
        /\ EntriesAreLocal(r, finalized[r].entries)
        /\ \A g \in OwnedMises(r) : \A q \in OwnedMises(r) :
              (Processed(r, g) /\ Processed(r, q) /\ g # q) => ColumnsOf(r, g) \cap ColumnsOf(r, q) = {}

C12_Witness ==
    \E r \in Ranks :
        /\ pc[r] = "finalized"
        /\ OwnedMises(r) = Mises
        /\ \A g \in Mises : mis_numcoarsedof[r][g] >= 1
        /\ \E p \in DOMAIN finalized[r].entries : p[1] \in DofsOf(1) /\ p[2] \in ColumnsOf(r, 1) /\ p[2] > 0
        /\ \E p \in DOMAIN finalized[r].entries : p[1] \in DofsOf(0) /\ p[2] = 0


\* ----------------------------------------------------------- finalization
\* C13: contrib_tent_finalize returns a matrix of exactly `rows` rows and
\* exactly filled_cols columns, whatever was inserted before; with
\* filled_cols = 0 it returns a matrix of zero columns and does not abort
\* (SA_ASSERT(filled_cols >= 0) cannot fail).
C13_FinalizeExactSize ==
    \A r \in Ranks :
        /\ filled_cols[r] >= 0
        /\ pc[r] # "finalized" => finalized[r] = NoMatrix
        /\ pc[r] = "finalized" =>
              /\ finalized[r].rows = ND
              /\ finalized[r].width = filled_cols[r]
              /\ \A p \in DOMAIN finalized[r].entries : p[1] \in 0 .. ND - 1 /\ p[2] \in 0 .. finalized[r].width - 1

C13_Witness ==
    /\ \E r \in Ranks : pc[r] = "finalized" /\ filled_cols[r] = 0 /\ finalized[r].width = 0 /\ finalized[r].rows = ND
    /\ \E r \in Ranks : pc[r] = "finalized" /\ filled_cols[r] = 3 /\ finalized[r].width = 3

\* ------------------------------------------------------------ skipped MISes
\* The MIS the loop of SVDInsert is about to handle on rank r.
AtMis(r, g) == pc[r] = "svd" /\ mis[r] < num_mises(r) /\ g = LocalMis(r, mis[r])

\* Rank r takes a step of its own.
Steps(r) == pc'[r] # pc[r] \/ mis'[r] # mis[r]

\* Nothing of MIS g is in the prolongator of rank r.
NothingInserted(r, g) ==
    /\ \A p \in DOMAIN tent_interp_[r] : p[1] \notin DofsOf(g)
    /\ \A p \in DOMAIN finalized[r].entries : p[1] \notin DofsOf(g)

\* The iteration of rank r is skipped: the rank stays in the loop at the next
\* MIS, and the prolongator and the column counts are as before.
IterationSkipped(r) ==
    /\ pc'[r] = "svd"
    /\ mis'[r] = mis[r] + 1
    /\ filled_cols'[r] = filled_cols[r]
    /\ tent_interp_'[r] = tent_interp_[r]
    /\ num_coarse_dofs'[r] = num_coarse_dofs[r]

SkippedOutcome(r, g) ==
    /\ mis_numcoarsedof[r][g] = 0
    /\ IsEmptyBasis(mis_tent_interps[r][g], mises_size[g])
    /\ NothingInserted(r, g)

AllBoundarySkipped ==
    \A r \in Ranks : \A g \in OwnedMises(r) :
        (Processed(r, g) /\ avoid_ess_bdr_dofs /\ AllOnBorder(g)) => SkippedOutcome(r, g)

AllBoundaryStep ==
    \A r \in Ranks : \A g \in OwnedMises(r) :
        (AtMis(r, g) /\ avoid_ess_bdr_dofs /\ AllOnBorder(g) /\ Steps(r)) => IterationSkipped(r)

\* C14: with avoid-boundary enabled, an owned MIS all of whose dofs are
\* essential-boundary dofs gets zero coarse dofs and a (dof count) x 0 basis;
\* nothing is inserted for it, filled_cols is unchanged, the rank does not
\* abort and SVDInsert goes on to the next MIS.
C14_AllBoundaryMisSkipped == [](AllBoundarySkipped) /\ [][AllBoundaryStep]_vars

C14_Witness ==
    \E r \in Ranks :
        /\ OwnedMises(r) = Mises /\ avoid_ess_bdr_dofs
        /\ AllOnBorder(0) /\ ~AllOnBorder(1)
        /\ Processed(r, 0) /\ Processed(r, 1)
        /\ mis_numcoarsedof[r][0] = 0 /\ mis_numcoarsedof[r][1] >= 1
        /\ filled_cols[r] = mis_numcoarsedof[r][1]
        /\ SVDInsertReturned(r)

\* The columns left in the contributions of MIS g after the filter loop, and
\* whether the loop ran to its end (every contribution came with a column).
FilterLoopReturns(slot, row_size) == \A q \in 1 .. row_size : Width(slot[q]) > 0
ColumnsLeft(slot, g, row_size) ==
    UNION {{<<q, j>> : j \in 1 .. Width(contrib_filter_boundary(slot[q], mis_to_dof(g)))} : q \in 1 .. row_size}
NoSingularValue(slot, g, row_size) ==
    \A p \in ColumnsLeft(slot, g, row_size) : IsZeroCol(contrib_filter_boundary(slot[p[1]], mis_to_dof(g)).cols[p[2]])

\* The case of C15 for the contributions slot of MIS g.
NothingToReduce(slot, g, row_size) ==
    /\ mises_size[g] >= 2
    /\ ~(avoid_ess_bdr_dofs /\ AllOnBorder(g))
    /\ FilterLoopReturns(slot, row_size)
    /\ ColumnsLeft(slot, g, row_size) = {} \/ NoSingularValue(slot, g, row_size)

EmptyReductionSkipped ==
    \A r \in Ranks : \A g \in OwnedMises(r) :
        (Processed(r, g) /\ NothingToReduce(SVDInsertInput(r)[g], g, row_sizes[r][g])) => SkippedOutcome(r, g)

EmptyReductionStep ==
    \A r \in Ranks : \A g \in OwnedMises(r) :
        (AtMis(r, g) /\ NothingToReduce(received_mats[r][g], g, row_sizes[r][g]) /\ Steps(r)) => IterationSkipped(r)

\* C15: for an owned MIS of at least two dofs, when the filter loop leaves no
\* column in any of its contributions, or the SVD retains no singular value,
\* SVDInsert gives the MIS zero coarse dofs and a (dof count) x 0 basis,
\* inserts nothing for it and continues with the next MIS without aborting.
C15_EmptyReductionSkipped == [](EmptyReductionSkipped) /\ [][EmptyReductionStep]_vars

C15_Witness ==
    \E r \in Ranks :
        /\ OwnedMises(r) = Mises /\ avoid_ess_bdr_dofs /\ mises_size = [g \in Mises |-> 2]
        /\ NumNeighbors(0) = 2 /\ row_sizes[r][0] = 2
        /\ Processed(r, 0) /\ Processed(r, 1)
        /\ NothingToReduce(SVDInsertInput(r)[0], 0, row_sizes[r][0])
        /\ mis_numcoarsedof[r][0] = 0
        /\ SVDInsertReturned(r)

\* ---------------------------------------------------------- non-owned MISes
\* The MISes rank r shares and another rank owns.
NotOwnedMises(r) == LocalMises(r) \ OwnedMises(r)

\* Rank r runs ExtendWithPolynomials or ExtendWithRBMs in this step.
ExtensionStep(r) ==
    /\ cfg.entry # "filter"
    /\ \/ pc[r] \in {"start", "extend"} /\ pc'[r] = "svd"
       \/ pc[r] = "kernel" /\ pc'[r] = "done"

NotOwnedOutcome ==
    \A r \in Ranks : \A g \in NotOwnedMises(r) :
        /\ NothingInserted(r, g)
        /\ Processed(r, g) =>
              /\ mis_numcoarsedof[r][g] = 0
              /\ mis_tent_interps[r][g] = [h |-> 0, cols |-> <<>>, n2 |-> <<>>]

NotOwnedStep ==
    \A r \in Ranks : \A g \in NotOwnedMises(r) :
        /\ ExtensionStep(r) => received_mats'[r][g] = received_mats[r][g]
        /\ (AtMis(r, g) /\ Steps(r)) => IterationSkipped(r)

\* C16: for every MIS another rank owns, ExtendWithPolynomials and
\* ExtendWithRBMs leave the contribution slot as it was, and SVDInsert sets
\* the coarse-dof count to 0, leaves the local basis empty and inserts no
\* entry into the prolongator for it.
C16_NotOwnedMisesProduceNothing == [](NotOwnedOutcome) /\ [][NotOwnedStep]_vars

C16_Witness ==
    \E r \in Ranks : \E g \in NotOwnedMises(r) : \E q \in OwnedMises(r) :
        /\ UsesRBMs
        /\ Processed(r, g) /\ Processed(r, q)
        /\ mis_numcoarsedof[r][g] = 0 /\ mis_numcoarsedof[r][q] >= 1
        /\ mats_in[r][g] = NULL
        /\ SVDInsertReturned(r)

\* ------------------------------------------------------------ column order
\* The contributions to MIS g in the order of the aggregates that hold them:
\* rank q holds aggregate q.
InAggregateOrder(g) ==
    [q \in 1 .. Cardinality(sharers[g]) |-> send_mat(SortedRanks(sharers[g])[q], g)]

\* The senders of what has reached rank r for MIS g, in the order of receipt.
ReceiptOrder(r, g) == [i \in 1 .. Len(sec_recv[r][g]) |-> sec_recv[r][g][i].from]

\* Rank r is in SVDInsert and has not reached owned MIS g yet.
AwaitingSVD(r, g) == pc[r] = "svd" /\ g \in OwnedMises(r) /\ ~Processed(r, g)

\* a is b with columns appended to the first contribution.
SameUpToExtension(a, b) ==
    /\ Len(a) = Len(b)
    /\ \A q \in 2 .. Len(b) : a[q] = b[q]
    /\ Width(a[1]) >= Width(b[1])
    /\ SubSeq(a[1].cols, 1, Width(b[1])) = b[1].cols

UnsupportedArguments ==
    \/ cfg.entry = "polynomials" /\ cfg.order \notin {0, 1}
    \/ cfg.entry = "rbms" /\ cfg.sd \notin {1, 2, 3}

\* Rank r has made the call and the call has ended.
ExtensionEnded(r) == pc[r] \in {"done", "aborted"}

\* C20: ExtendWithPolynomials called with an order other than 0 or 1, and
\* ExtendWithRBMs called with a spatial dimension outside {1, 2, 3}, end in
\* a fatal error on every rank that makes the call, whatever the partition,
\* also on a rank that owns no MIS.
C20_UnsupportedArgumentsFatalOnEveryRank ==
    \A r \in Ranks :
        (UnsupportedArguments /\ ExtensionEnded(r)) => pc[r] = "aborted"

\* --------------------------------------------------------------- Schur
\* The solution of the unreduced system by Cramer's rule.
WithColumn(M, j, b) == [i \in 1 .. 3 |-> [k \in 1 .. 3 |-> IF k = j THEN b[i] ELSE M[i][k]]]
DirectSolve(A, rhs) ==
    [j \in 1 .. 3 |-> Q(Det3(WithColumn(FullMatrix(A), j, rhs)), Det3(FullMatrix(A)))]

\* C18: for a single isolated agglomerate with no shared faces and an exact
\* inner solver, SchurSolver::Mult (reduce the right-hand side to the face
\* dofs, solve the Schur-complement system, recover the interior dofs from
\* the original right-hand side) returns the solution of the unreduced system.
C18_SchurRoundTrip ==
    schur.stage = "solved" =>
        /\ Len(schur.y) = NumInterior + 1
        /\ \A j \in 1 .. NumInterior + 1 :
              /\ schur.y[j][2] # 0
              /\ QEq(schur.y[j], DirectSolve(schur.A, schur.rhs)[j])

C18_Witness ==
    /\ schur.stage = "solved"
    /\ schur.A.if[1] # 0 /\ schur.A.if[2] # 0 /\ schur.A.fi[1] # 0 /\ schur.A.ii[1][2] # 0
    /\ schur.rhs = <<1, 0, 1>>
    /\ \A j \in 1 .. 3 : schur.y[j][1] # 0
    /\ \E j \in 1 .. NumInterior : schur.y[j][1] % Abs(schur.y[j][2]) # 0

\* ------------------------------------------------- asymmetric exchange
\* The ranks that share MIS g with its owner.
OtherSharers(g) == sharers[g] \ {mis_master[g]}

\* The send of rank q for MIS g is still waiting for its receive.
SendPending(q, g) == \E m \in msgs : m.from = q /\ m.mis = g

\* C19: when the owner of a MIS leaves it out of the exchange while the
\* other ranks sharing it run prepare, send and collect, those ranks never
\* complete the exchange and no rank signals an error.
C19_OmittedMisStallsOtherSharers ==
    /\ \A g \in omitted : \A q \in OtherSharers(g) : ~ExchangeDone(q)
    /\ \A r \in Ranks : pc[r] # "aborted"

C19_Witness ==
    \E g \in omitted : \E q \in OtherSharers(g) :
        /\ pc[q] = "collect" /\ SendPending(q, g)
        /\ {m \in msgs : m.mis \notin omitted} = {}
        /\ pc[mis_master[g]] = "finalized"
        /\ OwnedMises(mis_master[g]) # {}

\* ------------------------------------------------------ zero-column input
\* One of the first row_size contributions of the slot has no column.
ZeroWidthContribution(slot, row_size) == \E q \in 1 .. row_size : Width(slot[q]) = 0

\* The matrix a direct call of an insertion routine was given.
InsertArgument(g) == mats_in'[0][g][1]
InsertCalledWith(g) == cfg.entry = "insert" /\ pc[0] = "kernel" /\ mats_in'[0][g] # NULL

AbortsUnchanged(r) ==
    /\ pc'[r] = "aborted"
    /\ tent_interp_'[r] = tent_interp_[r]
    /\ filled_cols'[r] = filled_cols[r]

ZeroWidthStep ==
    /\ (cfg.entry = "filter" /\ pc[0] = "kernel" /\ Width(received_mats[0][0][1]) = 0)
          => (AbortsUnchanged(0) /\ received_mats' = received_mats)
    /\ \A g \in Mises :
          (InsertCalledWith(g) /\ Width(InsertArgument(g)) = 0)
              => (AbortsUnchanged(0) /\ received_mats'[0][g][1] = InsertArgument(g))
    /\ \A r \in Ranks : \A g \in OwnedMises(r) :
          (/\ AtMis(r, g) /\ Steps(r) /\ mises_size[g] >= 2
           /\ ZeroWidthContribution(received_mats[r][g], row_sizes[r][g])
           /\ ~(avoid_ess_bdr_dofs /\ AllOnBorder(g)))
              => AbortsUnchanged(r)

\* C21 as stated: SVDInsert never completes an owned MIS of two or more dofs
\* one of whose received contributions has no column.
C21_ZeroWidthNeverCompleted ==
    \A r \in Ranks : \A g \in OwnedMises(r) :
        (Processed(r, g) /\ mises_size[g] >= 2)
            => ~ZeroWidthContribution(SVDInsertInput(r)[g], row_sizes[r][g])

ZeroWidthCompletedOnlyOnBorder ==
    \A r \in Ranks : \A g \in OwnedMises(r) :
        (Processed(r, g) /\ mises_size[g] >= 2 /\ ZeroWidthContribution(SVDInsertInput(r)[g], row_sizes[r][g]))
            => (avoid_ess_bdr_dofs /\ AllOnBorder(g) /\ mis_numcoarsedof[r][g] = 0)

\* C21 amended: contrib_filter_boundary and contrib_tent_insert_simple
\* entered with a matrix of zero columns abort and leave the matrix, the
\* prolongator and filled_cols as they were; SVDInsert reaches that abort
\* for an owned MIS of two or more dofs with a zero-column contribution,
\* unless avoid-boundary is enabled and every dof of the MIS is an
\* essential-boundary dof: then the MIS is skipped before the filter.
C21_ZeroWidthAbortsUnlessBoundary == [](ZeroWidthCompletedOnlyOnBorder) /\ [][ZeroWidthStep]_vars

C21_Witness ==
    \E r \in Ranks : \E g \in OwnedMises(r) :
        /\ pc[r] = "aborted" /\ cfg.entry = "mises"
        /\ mis[r] < num_mises(r) /\ g = LocalMis(r, mis[r])
        /\ mises_size[g] = 2 /\ row_sizes[r][g] = 2
        /\ Width(received_mats[r][g][1]) > 0 /\ Width(received_mats[r][g][2]) = 0

\* ---------------------------------------------------------------- C22
\* C22: every per-element query GetMatrix, whatever the element number,
\* aborts and hands no matrix back, while BuildAEStiff returns the matrix
\* nonconf_AE_matrix gives for the same index and leaves the provider
\* usable.
C22_ProviderAnswersOnlyAggregates ==
    provider.stage # "none" =>
        /\ provider.query = "GetMatrix" =>
              /\ provider.stage = "aborted"
              /\ provider.result = NoMatrix
              /\ ~provider.free_matr
        /\ provider.query = "BuildAEStiff" =>
              /\ provider.stage = "ready"
              /\ provider.elno \in AEs
              /\ provider.result = provider.interp_data_nonconf[provider.elno]
        /\ provider.stage = "aborted" => provider.query = "GetMatrix"

C22_Witness ==
    /\ provider.stage = "aborted"
    /\ provider.query = "GetMatrix"
    /\ provider.elno = NumAEs
    /\ provider.interp_data_nonconf[0] # provider.interp_data_nonconf[1]

\* ---------------------------------------------------------------- C23
LinearsCalled == pc[0] = "done" /\ cfg.entry = "polynomials" /\ cfg.order = 1

\* C23: ExtendWithPolynomials with order 1 and spatial dimension d turns,
\* for every MIS the rank owns, a contribution of width w into one of width
\* w + d + 1 and the same height: the first w columns are the old ones,
\* column w is 1 in every row, and column w + 1 + c holds in row k the
\* entry num_nodes * c + dof of coords, dof being the dof of row k.
C23_LinearsAppendCoordinateColumns ==
    LinearsCalled =>
        \A g \in OwnedMises(0) :
            /\ received_mats[0][g] # NULL
            /\ Height(ExtendOut(g)) = Height(ExtendIn(g))
            /\ Width(ExtendOut(g)) = Width(ExtendIn(g)) + cfg.sd + 1
            /\ OldColumnsKept(g)
            /\ ExtendOut(g).cols[Width(ExtendIn(g)) + 1] = [k \in 1 .. mises_size[g] |-> 1]
            /\ \A c \in 0 .. cfg.sd - 1 : \A k \in 1 .. mises_size[g] :
                  Elem(ExtendOut(g), k, Width(ExtendIn(g)) + 2 + c) = coords[ND * c + mis_to_dof(g)[k]]

C23_Witness ==
    /\ LinearsCalled /\ cfg.sd = 2
    /\ \E g \in OwnedMises(0) :
          /\ mises_size[g] = 2 /\ Width(ExtendIn(g)) = 2 /\ Width(ExtendOut(g)) = 5
          /\ ExtendOut(g).cols[4] # ExtendOut(g).cols[5]
          /\ ExtendOut(g).cols[4][1] # ExtendOut(g).cols[4][2]
    /\ \E g \in Mises : mis_master[g] # 0 /\ received_mats[0][g] = mats_in[0][g]

\* ---------------------------------------------------------------- C24
RBM3DCalled == pc[0] = "done" /\ cfg.entry = "rbms" /\ cfg.sd = 3

\* The coordinates of node i (0-based) of MIS g in three dimensions.
Node3(g, i) == mis_to_dof(g)[3 * i + 1] \div 3
Position(g, i) == [c \in 0 .. 2 |-> coords[(ND \div 3) * c + Node3(g, i)]]

\* The values column j of the extended matrix holds on the rows of node i.
AtNode(g, i, j) == [c \in 0 .. 2 |-> Elem(ExtendOut(g), 3 * i + c + 1, j)]

\* C24: ExtendWithRBMs in three dimensions turns, for every owned MIS, a
\* contribution of width w into one of width w + 6: the old columns, three
\* translation columns (1 on the rows of one coordinate component, 0
\* elsewhere) and three rotation columns holding (y, -x, 0), (0, z, -y) and
\* (-z, 0, x) at a node with coordinates (x, y, z), each orthogonal to
\* (x, y, z).
C24_RBM3DColumns ==
    RBM3DCalled =>
        \A g \in OwnedMises(0) :
            LET w == Width(ExtendIn(g))
            IN /\ received_mats[0][g] # NULL
               /\ Height(ExtendOut(g)) = Height(ExtendIn(g))
               /\ Width(ExtendOut(g)) = w + 6
               /\ OldColumnsKept(g)
               /\ \A i \in 0 .. (mises_size[g] \div 3) - 1 :
                     LET p == Position(g, i)
                     IN /\ \A t \in 0 .. 2 : AtNode(g, i, w + 1 + t) = [c \in 0 .. 2 |-> IF c = t THEN 1 ELSE 0]
                        /\ AtNode(g, i, w + 4) = [c \in 0 .. 2 |-> IF c = 0 THEN p[1] ELSE IF c = 1 THEN -p[0] ELSE 0]
                        /\ AtNode(g, i, w + 5) = [c \in 0 .. 2 |-> IF c = 0 THEN 0 ELSE IF c = 1 THEN p[2] ELSE -p[1]]
                        /\ AtNode(g, i, w + 6) = [c \in 0 .. 2 |-> IF c = 0 THEN -p[2] ELSE IF c = 1 THEN 0 ELSE p[0]]
                        /\ \A j \in w + 4 .. w + 6 :
                              AtNode(g, i, j)[0] * p[0] + AtNode(g, i, j)[1] * p[1] + AtNode(g, i, j)[2] * p[2] = 0

C24_Witness ==
    /\ RBM3DCalled
    /\ \E g \in OwnedMises(0) :
          /\ mises_size[g] = 6 /\ Width(ExtendIn(g)) = 1 /\ Width(ExtendOut(g)) = 7
          /\ Position(g, 0) # Position(g, 1)
          /\ \A c \in 0 .. 2 : Position(g, 1)[c] # 0
          /\ Position(g, 1)[0] # Position(g, 1)[1] /\ Position(g, 1)[1] # Position(g, 1)[2]

\* ---------------------------------------------------------------- C25
\* The direct call of contrib_tent_insert_simple with the dof list of MIS g
\* that this step makes and returns from.
InsertSimpleReturns(g) ==
    /\ InsertCalledWith(g)
    /\ pc'[0] = "kernel"
    /\ filled_cols'[0] # filled_cols[0]

\* Column j of a local matrix of width v lands in column c + j, c being
\* filled_cols on entry; the entry of row i is written exactly when its
\* magnitude is strictly above the threshold; everything else is untouched.
PlacedFrom(g, c) ==
    LET local == InsertArgument(g)
        restriction == mis_to_dof(g)
        v == Width(local)
        written == {<<restriction[i], c + j - 1>> : <<i, j>> \in {e \in (1 .. Height(local)) \X (1 .. v) :
                        Abs(Elem(local, e[1], e[2])) > threshold_}}
    IN /\ filled_cols'[0] = c + v
       /\ DOMAIN tent_interp_'[0] = DOMAIN tent_interp_[0] \cup written
       /\ \A p \in DOMAIN tent_interp_[0] \ written : tent_interp_'[0][p] = tent_interp_[0][p]
       /\ \A i \in 1 .. Height(local) : \A j \in 1 .. v :
             <<restriction[i], c + j - 1>> \in written =>
                tent_interp_'[0][<<restriction[i], c + j - 1>>].num = Elem(local, i, j)

InsertSimpleStep ==
    \A g \in Mises : InsertSimpleReturns(g) => PlacedFrom(g, filled_cols[0])

\* In a run of SVDInsert the columns holding the dofs of a lower-numbered
\* owned MIS all come before those of a higher-numbered one.
LowerMisFirst ==
    \A r \in Ranks :
        cfg.entry # "insert" =>
            \A g \in OwnedMises(r) : \A q \in OwnedMises(r) :
                g < q =>
                    \A p1 \in DOMAIN tent_interp_[r] : \A p2 \in DOMAIN tent_interp_[r] :
                        (p1[1] \in DofsOf(g) /\ p2[1] \in DofsOf(q)) => p1[2] < p2[2]

\* C25: contrib_tent_insert_simple places column j of a local basis of
\* width v into column c + j of the prolongator, c being filled_cols on
\* entry, writes exactly the entries whose magnitude is strictly above the
\* threshold and leaves filled_cols = c + v; SVDInsert visits the MISes in
\* increasing id, so the coarse dofs of a lower-numbered owned MIS precede
\* those of a higher-numbered one.
C25_InsertSimplePlacement == [](LowerMisFirst) /\ [][InsertSimpleStep]_vars

C25_Witness ==
    /\ cfg.entry = "insert"
    /\ pc[0] = "kernel"
    /\ filled_cols[0] = 3
    /\ \E g \in Mises :
          /\ mises_size[g] = 2
          /\ mats_in[0][g] # NULL
          /\ Width(mats_in[0][g][1]) = 2
          /\ IsZeroCol(mats_in[0][g][1].cols[2])
          /\ ~IsZeroCol(mats_in[0][g][1].cols[1])
          /\ \A p \in DOMAIN tent_interp_[0] : p[2] < 2
          /\ \E p \in DOMAIN tent_interp_[0] : p[2] = 1 /\ p[1] \in DofsOf(g)

\* ---------------------------------------------------------------- C26
\* mis_tent_interps[g] is (dof count of g) x mis_numcoarsedof[g].
BasisSized(r, g) ==
    /\ Height(mis_tent_interps[r][g]) = mises_size[g]
    /\ Width(mis_tent_interps[r][g]) = mis_numcoarsedof[r][g]
    /\ \A j \in 1 .. Width(mis_tent_interps[r][g]) : Len(mis_tent_interps[r][g].cols[j]) = mises_size[g]
    /\ 0 <= mis_numcoarsedof[r][g]
    /\ mis_numcoarsedof[r][g] <= mises_size[g]

\* C26: once SVDInsert has dealt with an owned MIS, and so for every owned
\* MIS after SVDInsert, the stored local basis has as many rows as the MIS
\* has dofs and exactly mis_numcoarsedof[mis] columns, a number between 0
\* and the dof count, whichever path the iteration took.
C26_BasisSizedByCoarseDofCount ==
    \A r \in Ranks :
        /\ \A g \in OwnedMises(r) : Processed(r, g) => BasisSized(r, g)
        /\ SVDInsertDone(r) => \A g \in OwnedMises(r) : Processed(r, g)

C26_Witness ==
    \E r \in Ranks :
        /\ SVDInsertReturned(r)
        /\ \E g \in OwnedMises(r) : mises_size[g] = 2 /\ mis_numcoarsedof[r][g] = 1 /\ ~AllOnBorder(g)
        /\ \E g \in OwnedMises(r) : mises_size[g] = 1 /\ mis_numcoarsedof[r][g] = 0 /\ Height(mis_tent_interps[r][g]) = 1

\* ---------------------------------------------------------------- C27
\* The local basis the SVD and xpack_orth_set make of the columns cols.
BasisOf(cols, dim) ==
    xpack_orth_set(Orthogonalize(cols, 1, <<>>), dim)

\* The columns of MIS g when the collected contributions are extended first
\* and filtered afterwards, and when they are filtered first and extended
\* afterwards.
FilterAfterExtension(r, g) ==
    ConcatCols(FilteredSlot(ExtensionOf(mats_in[r], r)[g], g, row_sizes[r][g]), row_sizes[r][g])

ExtensionAfterFilter(r, g) ==
    ConcatCols(ExtensionOf([q \in Mises |-> IF q = g THEN FilteredSlot(mats_in[r][g], g, row_sizes[r][g]) ELSE mats_in[r][q]], r)[g], row_sizes[r][g])

\* An owned MIS of a composite run that went through the SVD.
CompositeReduced(r, g) ==
    /\ cfg.entry = "composite"
    /\ g \in OwnedMises(r)
    /\ Processed(r, g)
    /\ mises_size[g] >= 2
    /\ ~(avoid_ess_bdr_dofs /\ AllOnBorder(g))

\* C27 as stated: the contributions are boundary-filtered before the
\* polynomial or rigid-body columns are appended, so the basis is made of
\* the filtered contributions followed by the unfiltered appended columns.
C27_FilterBeforeExtension ==
    \A r \in Ranks : \A g \in Mises :
        CompositeReduced(r, g) =>
            mis_tent_interps[r][g] = BasisOf(ExtensionAfterFilter(r, g), mises_size[g])

BasisFromFilteredExtension ==
    \A r \in Ranks : \A g \in Mises :
        CompositeReduced(r, g) =>
            mis_tent_interps[r][g] = BasisOf(FilterAfterExtension(r, g), mises_size[g])

\* The stages of contrib_composite on one rank follow one another: the
\* collected contributions are extended as collected, SVDInsert starts on
\* the extended ones, and the prolongator is written only inside SVDInsert.
StageOrder ==
    \A r \in Ranks :
        cfg.entry = "composite" =>
            /\ (pc[r] # "extend" /\ pc'[r] = "extend") =>
                  /\ pc[r] = "collect"
                  /\ received_mats'[r] = Collect(r)
            /\ (pc[r] # "svd" /\ pc'[r] = "svd") =>
                  /\ pc[r] = "extend"
                  /\ mats_in'[r] = received_mats[r]
                  /\ received_mats'[r] = ExtensionOf(received_mats[r], r)
            /\ (tent_interp_'[r] # tent_interp_[r] /\ pc'[r] # "finalized") => pc[r] = "svd"

\* C27 (amended): in contrib_composite the stages run, for each owned MIS,
\* in the order exchange, basis extension, boundary filter, SVD, insertion:
\* the polynomial or rigid-body columns are appended to the contributions
\* as received, and the filter then acts on received and appended columns
\* alike.
C27_ExtensionBeforeFilter == [](BasisFromFilteredExtension) /\ [][StageOrder]_vars

C27_Witness ==
    \E r \in Ranks : \E g \in Mises :
        /\ CompositeReduced(r, g)
        /\ avoid_ess_bdr_dofs
        /\ SVDInsertReturned(r)
        /\ FilterAfterExtension(r, g) # ExtensionAfterFilter(r, g)
        /\ mis_tent_interps[r][g] # BasisOf(ExtensionAfterFilter(r, g), mises_size[g])
        /\ mis_numcoarsedof[r][g] >= 1

\* ---------------------------------------------------------------- C28
\* Entry c (1-based) of the array was computed from the column of the local
\* basis that became local coarse dof c - 1.
BelongsToCoarseDof(r, c) ==
    LET e == local_coarse_one_representation[r][c]
    IN /\ e.mis \in OwnedMises(r)
       /\ Processed(r, e.mis)
       /\ e.col \in 1 .. mis_numcoarsedof[r][e.mis]
       /\ c - 1 = FirstColumn(r, e.mis) + e.col - 1
       /\ e.x = xpack_solve_lls(mis_tent_interps[r][e.mis])[e.col]
       /\ \A p \in DOMAIN tent_interp_[r] : p[2] = c - 1 => p[1] \in DofsOf(e.mis)

\* C28: with scaling enabled, SVDInsert on a fresh builder leaves in
\* local_coarse_one_representation exactly one scalar per local coarse dof,
\* entry c belonging to local coarse dof c; with scaling disabled the array
\* stays empty.
C28_OneScalarPerCoarseDof ==
    \A r \in Ranks :
        (cfg.entry # "insert" /\ pc[r] \in {"svd", "scan", "returned", "finalized", "aborted"}) =>
            IF scaling_P
            THEN /\ Len(local_coarse_one_representation[r]) = filled_cols[r]
                 /\ \A c \in 1 .. Len(local_coarse_one_representation[r]) : BelongsToCoarseDof(r, c)
            ELSE local_coarse_one_representation[r] = <<>>

C28_Witness ==
    \E r \in Ranks :
        /\ scaling_P
        /\ SVDInsertReturned(r)
        /\ OwnedMises(r) = Mises
        /\ filled_cols[r] = 3
        /\ Len(local_coarse_one_representation[r]) = 3
        /\ local_coarse_one_representation[r][1].mis = 0
        /\ local_coarse_one_representation[r][3].mis = 1

\* ---------------------------------------------------------------- C29
\* The sum of mis_numcoarsedof over the owned MISes the running pass of
\* SVDInsert has dealt with.
PassCount(r) ==
    SumOver([g \in Mises |-> IF Processed(r, g) THEN mis_numcoarsedof[r][g] ELSE 0], OwnedMises(r))

\* A direct call of an insertion routine with the dof list of MIS g returns
\* in this step; received_mats'[0][g] holds local as the routine left it.
DirectInsertReturns(g) ==
    /\ cfg.entry = "sequence"
    /\ pc[0] \in {"kernel", "returned"}
    /\ pc'[0] = "kernel"
    /\ mats_in'[0][g] # NULL

\* One iteration of the loop of SVDInsert ends in this step.
IterationEnds(r) == pc[r] = "svd" /\ mis'[r] = mis[r] + 1

FilledColsStep ==
    /\ \A r \in Ranks : filled_cols'[r] >= filled_cols[r]
    /\ \A g \in Mises :
          DirectInsertReturns(g) =>
              filled_cols'[0] = filled_cols[0] + Width(received_mats'[0][g][1])
    /\ \A r \in Ranks :
          IterationEnds(r) =>
              LET g == LocalMis(r, mis[r])
              IN /\ filled_cols'[r] = filled_cols[r] + mis_numcoarsedof'[r][g]
                 /\ mis_numcoarsedof'[r][g] = Width(mis_tent_interps'[r][g])
    /\ \A r \in Ranks :
          (pc[r] # "svd" /\ pc'[r] = "svd") => (pass_start'[r] = filled_cols[r] /\ filled_cols'[r] = filled_cols[r])

\* A pass of SVDInsert raises filled_cols by the sum of mis_numcoarsedof it
\* set, which is the count it feeds to MPI_Scan; that count is the width
\* contrib_tent_finalize gives the prolongator exactly when the pass began
\* with filled_cols = 0.
PassRaisesByItsCount ==
    \A r \in Ranks :
        /\ pc[r] \in {"svd", "scan", "returned"} =>
              /\ filled_cols[r] = pass_start[r] + PassCount(r)
              /\ num_coarse_dofs[r] = PassCount(r)
        /\ pc[r] \in {"scan", "returned", "finalized"} => scan_in[r] = num_coarse_dofs[r]
        /\ pc[r] = "finalized" =>
              /\ finalized[r].width = pass_start[r] + scan_in[r]
              /\ (scan_in[r] = finalized[r].width) <=> (pass_start[r] = 0)

\* C29: over any sequence of contrib_tent_insert_simple,
\* contrib_tent_insert_from_local and SVDInsert passes on one builder,
\* filled_cols never decreases, each call raises it by the width of the
\* local matrix on return, a pass of SVDInsert raises it by the sum of
\* mis_numcoarsedof the pass set, and the count fed to the prefix sum is the
\* finalized width only when the pass started with filled_cols = 0.
C29_FilledColsCountsInsertedColumns == [](PassRaisesByItsCount) /\ [][FilledColsStep]_vars

C29_Witness ==
    /\ cfg.entry = "sequence"
    /\ pc[0] = "finalized"
    /\ pass_start[0] = 1
    /\ scan_in[0] = 2
    /\ finalized[0].width = 3
    /\ \E p \in DOMAIN finalized[0].entries : p[2] = 0 /\ finalized[0].entries[p].num = 0

\* ---------------------------------------------------------------- C30
\* Column c of MIS g is zero at every essential-boundary dof of the MIS and
\* is not the zero column.
VanishesOnBoundary(c, g) ==
    /\ Len(c) = mises_size[g]
    /\ \A k \in 1 .. mises_size[g] : agg_is_dof_on_essential_border(mis_to_dof(g)[k]) => c[k] = 0
    /\ ~IsZeroCol(c)

\* The columns the iteration for MIS g, starting in the current state, hands
\* to xpack_svd_dense_arr: the contributions as the filter loop leaves them.
HandedToSVD(r, g) ==
    ConcatCols(FilteredSlot(received_mats[r][g], g, row_sizes[r][g]), row_sizes[r][g])

\* The iteration of this step runs the SVD for an owned MIS of two or more
\* dofs with avoid-boundary enabled.
ReducesWithAvoidBoundary(r, g) ==
    /\ IterationEnds(r)
    /\ g = LocalMis(r, mis[r])
    /\ avoid_ess_bdr_dofs
    /\ MisBranch(r, g, received_mats[r][g], row_sizes[r][g]) \in {"svd", "zero"}

HandedToSVDStep ==
    \A r \in Ranks : \A g \in Mises :
        ReducesWithAvoidBoundary(r, g) =>
            /\ mises_size[g] >= 2
            /\ \A j \in 1 .. Len(HandedToSVD(r, g)) : VanishesOnBoundary(HandedToSVD(r, g)[j], g)
            /\ mis_tent_interps'[r][g] = BasisOf(HandedToSVD(r, g), mises_size[g])

\* The local basis made of those columns vanishes on the boundary as well.
BasisVanishesOnBoundary ==
    \A r \in Ranks : \A g \in OwnedMises(r) :
        (avoid_ess_bdr_dofs /\ Processed(r, g) /\ mises_size[g] >= 2) =>
            \A j \in 1 .. Width(mis_tent_interps[r][g]) : VanishesOnBoundary(mis_tent_interps[r][g].cols[j], g)

\* C30: with avoid-boundary enabled, for every owned MIS of two or more dofs
\* every column handed to the SVD, received or appended by an extension, is
\* zero at every essential-boundary dof of the MIS and has a nonzero entry.
C30_SVDColumnsVanishOnBoundary == [](BasisVanishesOnBoundary) /\ [][HandedToSVDStep]_vars

C30_Witness ==
    \E r \in Ranks : \E g \in OwnedMises(r) :
        /\ cfg.entry = "composite"
        /\ avoid_ess_bdr_dofs
        /\ Processed(r, g)
        /\ mises_size[g] = 2
        /\ agg_is_dof_on_essential_border(mis_to_dof(g)[1])
        /\ ~agg_is_dof_on_essential_border(mis_to_dof(g)[2])
        /\ NumNeighbors(g) = 2
        /\ Width(ExtensionOf(mats_in[r], r)[g][1]) > Width(mats_in[r][g][1])
        /\ mis_numcoarsedof[r][g] = 1
        /\ mis_tent_interps[r][g].cols[1][1] = 0
        /\ mis_tent_interps[r][g].cols[1][2] # 0

====
